---- MODULE Spec2Model ----
(***************************************************************************)
(* A model of the lune-std-ffi crate: type codes, value coercion, the      *)
(* signature record, the call engine's argument marshalling, the callback  *)
(* engine and the loader surface.                                          *)
(*                                                                         *)
(* Fixed-width integers are little-endian byte sequences (two's            *)
(* complement), so that every width of the program, 64 bits included, is   *)
(* computed exactly.  Optional values are <<>> (None) and <<x>> (Some(x)). *)
(* Results are records tagged "Ok", "Err" (a LuaError::runtime with its    *)
(* message) or "Panic" (a Rust panic).                                     *)
(***************************************************************************)
EXTENDS Integers, Sequences, FiniteSets, TLC

VARIABLES
    target,           \* the compilation target (cfg!(target_pointer_width), cfg!(target_arch))
    overflow_checks,  \* whether the build traps on integer overflow (debug profile)
    sig_table,        \* SpecSig: the script-side signature table handed to from_table
    sig_result,       \* SpecSig: what Signature::from_table returned for it
    call_in,          \* SpecCall: the signature table and args table of the call
    call_st,          \* SpecCall: where the call is and what it has built
    va_in,            \* SpecVariadic: the un-hinted variadic argument and the anchor list
    va_out,           \* SpecVariadic: what convert_variadic_argument returned for it
    cb_in,            \* SpecCallback: the arguments of createCallback and the script's globals
    cb,               \* SpecCallback: the handle, its resources, the result slot, the reports
    dl,               \* SpecLoader: the loader's pending error and the last operation's outcome
    sc_in,            \* SpecScalar: the type code and the value of storeScalar
    sc,               \* SpecScalar: the allocation's bytes, what store and load returned
    buf,              \* SpecBytes: the destination buffer, the data, what readString returned
    co_in,            \* SpecCoerce: the value and the type a coercion is applied to
    co_out,           \* SpecCoerce: what each coercion returned for it
    errno,            \* SpecErrno: each thread's C errno and its last getErrno, setErrno
    fr_in,            \* SpecFrames: the calls in flight, their signature and args tables
    fr,               \* SpecFrames: each call's frame and the heap of its anchor strings
    cl_in,            \* SpecClamp: the value and the bit width a clamp is applied to
    cl_out            \* SpecClamp: what clamp_signed and clamp_unsigned returned for it

buildVars == <<target, overflow_checks>>
sigVars == <<sig_table, sig_result>>
callVars == <<call_in, call_st>>
variadicVars == <<va_in, va_out>>
callbackVars == <<cb_in, cb>>
loaderVars == <<dl>>
scalarVars == <<sc_in, sc>>
bytesVars == <<buf>>
coerceVars == <<co_in, co_out>>
errnoVars == <<errno>>
nativeVars == <<scalarVars, bytesVars, coerceVars, errnoVars>>
frameVars == <<fr_in, fr>>
clampVars == <<cl_in, cl_out>>
lateVars == <<frameVars, clampVars>>

(***************************************************************************)
(* Options and results                                                     *)
(***************************************************************************)
None == <<>>
Some(x) == <<x>>
IsSome(o) == o # <<>>
Unwrap(o) == o[1]

Ok(v) == [tag |-> "Ok", v |-> v]
Err(msg) == [tag |-> "Err", msg |-> msg]
Panic(msg) == [tag |-> "Panic", msg |-> msg]
IsOk(r) == r.tag = "Ok"
IsErr(r) == r.tag = "Err"
IsPanic(r) == r.tag = "Panic"

\* Rust's `?`: go on with the value of an Ok, hand back anything else
Try(r, F(_)) == IF IsOk(r) THEN F(r.v) ELSE r

(***************************************************************************)
(* The state of each part before it is used                                *)
(***************************************************************************)
SigIdle == sig_table = None /\ sig_result = None

CallIdleState ==
    [pc |-> "idle", signature |-> None, collected |-> None, cif |-> None,
     anchors |-> <<>>, invoked |-> 0, raw |-> None, result |-> None]

CallIdle == call_in = None /\ call_st = CallIdleState

VariadicIdle == va_in = None /\ va_out = None

CallbackIdleState ==
    [pc |-> "none", created |-> None, signature |-> None, cif |-> None,
     key |-> "none", releases |-> 0, data |-> "null", closure |-> "none",
     slot |-> <<>>, invocations |-> 0, last |-> None, calls |-> <<>>,
     errors |-> 0, warned |-> 0, warn_failed |-> 0, stderr |-> 0]

CallbackIdle == cb_in = None /\ cb = CallbackIdleState

LoaderIdleState == [pending |-> None, ops |-> 0, last |-> None, prev |-> None]

LoaderIdle == dl = LoaderIdleState

ScalarIdle == sc_in = None /\ sc = None

BytesIdle == buf = None

CoerceIdle == co_in = None /\ co_out = None

ErrnoIdle == errno = None

NativeIdle == ScalarIdle /\ BytesIdle /\ CoerceIdle /\ ErrnoIdle

FramesIdle == fr_in = None /\ fr = None

ClampIdle == cl_in = None /\ cl_out = None

LateIdle == FramesIdle /\ ClampIdle

(***************************************************************************)
(* The build: target and profile                                           *)
(***************************************************************************)
Targets == {"x86_64-unix", "x86-unix"}

\* usize::BITS, cfg!(target_pointer_width = "64")
pointer_width == IF target = "x86_64-unix" THEN 64 ELSE 32

BuildInit ==
    /\ target \in Targets
    /\ overflow_checks \in BOOLEAN

(***************************************************************************)
(* Fixed-width integers as little-endian byte sequences                    *)
(***************************************************************************)
RECURSIVE le_bytes(_, _)
\* the n low bytes of the two's complement representation of v
le_bytes(v, n) ==
    IF n = 0 THEN <<>> ELSE <<v % 256>> \o le_bytes(v \div 256, n - 1)

\* an i64 / u64 given by a small number
I64(v) == le_bytes(v, 8)

I64_MIN == <<0, 0, 0, 0, 0, 0, 0, 128>>
I64_MAX == <<255, 255, 255, 255, 255, 255, 255, 127>>
U64_MAX == <<255, 255, 255, 255, 255, 255, 255, 255>>
\* 2^31, 2^31 - 1, -2^31, -2^31 - 1, 2^32 - 1 and 2^32 as i64
I64_2P31 == <<0, 0, 0, 128, 0, 0, 0, 0>>
I64_I32_MAX == <<255, 255, 255, 127, 0, 0, 0, 0>>
I64_I32_MIN == <<0, 0, 0, 128, 255, 255, 255, 255>>
I64_BELOW_I32 == <<255, 255, 255, 127, 255, 255, 255, 255>>
I64_U32_MAX == <<255, 255, 255, 255, 0, 0, 0, 0>>
I64_2P32 == <<0, 0, 0, 0, 1, 0, 0, 0>>

is_negative(w) == w[Len(w)] >= 128

\* a < b, both read as unsigned integers of the same width
lt_unsigned(a, b) ==
    \E i \in 1..Len(a) :
        /\ a[i] < b[i]
        /\ \A j \in (i + 1)..Len(a) : a[j] = b[j]

\* a < b, both read as signed integers of the same width
lt_signed(a, b) ==
    IF is_negative(a) # is_negative(b) THEN is_negative(a) ELSE lt_unsigned(a, b)

RECURSIVE word_inc(_)
\* w + 1, wrapping
word_inc(w) ==
    IF w = <<>> THEN <<>>
    ELSE IF Head(w) = 255 THEN <<0>> \o word_inc(Tail(w))
    ELSE <<Head(w) + 1>> \o Tail(w)

RECURSIVE word_dec(_)
\* w - 1, wrapping
word_dec(w) ==
    IF w = <<>> THEN <<>>
    ELSE IF Head(w) = 0 THEN <<255>> \o word_dec(Tail(w))
    ELSE <<Head(w) - 1>> \o Tail(w)

word_not(w) == [i \in 1..Len(w) |-> 255 - w[i]]

\* -w, wrapping
word_neg(w) == word_inc(word_not(w))

RECURSIVE pow2(_)
pow2(k) == IF k = 0 THEN 1 ELSE 2 * pow2(k - 1)

\* 1 << k in an n-byte integer (k < 8 n)
shl_one(k, n) == [i \in 1..n |-> IF i = (k \div 8) + 1 THEN pow2(k % 8) ELSE 0]

\* `as` to a narrower integer: the low n bytes
truncate(w, n) == SubSeq(w, 1, n)

\* `as` to a wider integer from a signed one (sign extension)
sign_extend(w, n) ==
    w \o [i \in 1..(n - Len(w)) |-> IF is_negative(w) THEN 255 ELSE 0]

\* `as` to a wider integer from an unsigned one (zero extension)
zero_extend(w, n) == w \o [i \in 1..(n - Len(w)) |-> 0]

RECURSIVE unsigned_value(_)
\* the number an unsigned byte sequence of at most 3 bytes stands for
unsigned_value(w) ==
    IF w = <<>> THEN 0 ELSE Head(w) + 256 * unsigned_value(Tail(w))

\* the number a signed byte sequence of at most 3 bytes stands for
signed_value(w) ==
    IF is_negative(w) THEN unsigned_value(w) - pow2(8 * Len(w)) ELSE unsigned_value(w)

(***************************************************************************)
(* types.rs: type codes                                                    *)
(***************************************************************************)
TypeCode ==
    {"Void", "Int8", "UInt8", "Int16", "UInt16", "Int32", "UInt32", "Int64",
     "UInt64", "IntPtr", "UIntPtr", "Float32", "Float64", "Pointer"}

\* the spellings written with other case or surrounding blanks that the model draws
normalize_code(code) ==
    CASE code = " Int32 " -> "int32"
      [] code = "POINTER" -> "pointer"
      [] code = "Double\t" -> "double"
      [] OTHER -> code

from_code(code) ==
    CASE code = "void" -> Ok("Void")
      [] code \in {"int8", "sint8"} -> Ok("Int8")
      [] code = "uint8" -> Ok("UInt8")
      [] code \in {"int16", "sint16"} -> Ok("Int16")
      [] code = "uint16" -> Ok("UInt16")
      [] code \in {"int32", "sint32", "int"} -> Ok("Int32")
      [] code \in {"uint32", "unsigned int"} -> Ok("UInt32")
      [] code \in {"int64", "sint64", "long long"} -> Ok("Int64")
      [] code \in {"uint64", "unsigned long long"} -> Ok("UInt64")
      [] code = "long" -> IF pointer_width = 64 THEN Ok("Int64") ELSE Ok("Int32")
      [] code = "unsigned long" -> IF pointer_width = 64 THEN Ok("UInt64") ELSE Ok("UInt32")
      [] code \in {"size_t", "uintptr_t"} -> Ok("UIntPtr")
      [] code \in {"ssize_t", "intptr_t", "ptrdiff_t"} -> Ok("IntPtr")
      [] code = "float" -> Ok("Float32")
      [] code = "double" -> Ok("Float64")
      [] code \in {"pointer", "void*"} -> Ok("Pointer")
      [] OTHER -> Err("Unsupported primitive type code")

size_of(ty) ==
    CASE ty = "Void" -> 0
      [] ty \in {"Int8", "UInt8"} -> 1
      [] ty \in {"Int16", "UInt16"} -> 2
      [] ty \in {"Int32", "UInt32", "Float32"} -> 4
      [] ty \in {"Int64", "UInt64", "Float64"} -> 8
      [] ty \in {"IntPtr", "UIntPtr", "Pointer"} -> pointer_width \div 8

(***************************************************************************)
(* signature.rs: CType, AbiChoice, Signature                               *)
(***************************************************************************)
\* A script-side type descriptor: a string spelling, a table with a `code`
\* field (None when the field is missing), or a value of another kind.
DescString(code) == [form |-> "string", code |-> Some(code)]
DescTable(code) == [form |-> "table", code |-> code]
DescOther == [form |-> "other", code |-> None]

\* CType::from_lua
CType_from_lua(value) ==
    CASE value.form = "string" -> from_code(normalize_code(Unwrap(value.code)))
      [] value.form = "table" ->
            IF IsSome(value.code)
            THEN from_code(normalize_code(Unwrap(value.code)))
            ELSE Err("Type descriptor missing 'code' field")
      [] OTHER -> Err("Invalid type descriptor")

\* CType::to_libffi_type: the libffi type descriptor, by name
to_libffi_type(code) ==
    CASE code = "Void" -> "void"
      [] code = "Int8" -> "i8"
      [] code = "UInt8" -> "u8"
      [] code = "Int16" -> "i16"
      [] code = "UInt16" -> "u16"
      [] code = "Int32" -> "i32"
      [] code = "UInt32" -> "u32"
      [] code = "Int64" -> "i64"
      [] code = "UInt64" -> "u64"
      [] code = "IntPtr" -> IF pointer_width = 64 THEN "i64" ELSE "i32"
      [] code = "UIntPtr" -> IF pointer_width = 64 THEN "u64" ELSE "u32"
      [] code = "Float32" -> "f32"
      [] code = "Float64" -> "f64"
      [] code = "Pointer" -> "pointer"

\* AbiChoice::from_option, on the targets of the model (x86_64 and x86, unix)
AbiChoice_from_option(value) ==
    CASE value = None -> Ok("Default")
      [] value \in {Some("cdecl"), Some("default")} -> Ok("Default")
      [] value = Some("sysv") ->
            IF target = "x86_64-unix" THEN Ok("FFI_UNIX64") ELSE Ok("FFI_SYSV")
      [] value = Some("stdcall") ->
            IF target = "x86-unix" THEN Ok("FFI_STDCALL")
            ELSE Err("ABI 'stdcall' requires x86 architecture")
      [] value \in {Some("ms_abi"), Some("ms_cdecl")} ->
            Err("ABI 'ms_abi' only available on Windows targets")
      [] value = Some("win64") -> Err("ABI 'win64' only available on Windows targets")
      [] OTHER -> Err("Unsupported ABI")

RECURSIVE collect_ctypes(_)
\* the loop of from_table over args_table.sequence_values(): the first
\* descriptor that does not convert ends construction with its error
collect_ctypes(descs) ==
    IF descs = <<>> THEN Ok(<<>>)
    ELSE Try(CType_from_lua(Head(descs)),
             LAMBDA first : Try(collect_ctypes(Tail(descs)),
                                LAMBDA rest : Ok(<<first>> \o rest)))

\* A field read as Option<u32> (table.get::<Option<u32>>): absent, or a number;
\* a negative number does not convert to u32 and the read fails.
u32_field_fails(field) == IsSome(field) /\ Unwrap(field) < 0

\* the checks of from_table with the non-variadic one left out
check_fixed_count_upper_only(variadic, fixed_count, nargs) ==
    IF fixed_count > nargs
    THEN Err("Invalid signature: fixedCount exceeds number of arguments")
    ELSE Ok(TRUE)

\* the two checks of from_table on fixed_count
check_fixed_count(variadic, fixed_count, nargs) ==
    IF fixed_count > nargs
    THEN Err("Invalid signature: fixedCount exceeds number of arguments")
    ELSE IF ~variadic /\ fixed_count # nargs
    THEN Err("Invalid signature: fixedCount must equal number of arguments for non-variadic functions")
    ELSE Ok(TRUE)

\* the part of from_table after the abi, the result type and the argument types
\* have been read
signature_of(table, abi, result, args) ==
    IF u32_field_fails(table.fixedCount) THEN Err("error converting Lua number to u32")
    ELSE LET variadic == IF IsSome(table.variadic) THEN Unwrap(table.variadic) ELSE FALSE
             fixed_count == IF IsSome(table.fixedCount) THEN Unwrap(table.fixedCount)
                            ELSE Len(args)
         IN  Try(check_fixed_count(variadic, fixed_count, Len(args)),
                 LAMBDA checked : Ok([abi |-> abi, result |-> result, args |-> args,
                                      variadic |-> variadic, fixed_count |-> fixed_count]))

\* table.get("args") as a table, then the loop over its sequence
args_of(table) ==
    IF IsSome(table.args) THEN collect_ctypes(Unwrap(table.args))
    ELSE Err("error converting Lua nil to table")

\* Signature::from_table
from_table(table) ==
    Try(AbiChoice_from_option(table.abi),
        LAMBDA abi : Try(CType_from_lua(table.result),
                         LAMBDA result : Try(args_of(table),
                                             LAMBDA args : signature_of(table, abi, result, args))))

\* Signature::build_cif: the Cif, by what it was built from
build_cif(signature, arg_types) ==
    [variadic |-> signature.variadic,
     arg_types |-> arg_types,
     fixed_count |-> IF signature.variadic THEN Some(signature.fixed_count) ELSE None,
     result_type |-> to_libffi_type(signature.result),
     abi |-> signature.abi]

\* Signature::arg_types
arg_types_of(signature) == [i \in 1..Len(signature.args) |-> to_libffi_type(signature.args[i])]

(***************************************************************************)
(* Script values (mlua's LuaValue)                                         *)
(*                                                                         *)
(* An integer is an i64 (8 bytes).  A string is named by its text; its     *)
(* bytes are as_bytes(text).  A light userdata holds an address (a usize,  *)
(* zero-extended to 8 bytes).  A table is a function from its raw keys to  *)
(* values.  A number is an f64: not finite (cls "nan", "inf", "-inf"), or  *)
(* finite with a sign, the integer part of its magnitude (mag, when below  *)
(* 2^64; big when not) and the size of its fractional part: "zero", "tiny" *)
(* (non-zero, at most f64::EPSILON) or "large" (above f64::EPSILON).       *)
(***************************************************************************)
Nil == [kind |-> "nil"]
Boolean(b) == [kind |-> "boolean", b |-> b]
Integer(i) == [kind |-> "integer", i |-> i]
Number(f) == [kind |-> "number", f |-> f]
String(text) == [kind |-> "string", text |-> text]
LightUserData(p) == [kind |-> "lightuserdata", p |-> p]
Table(t) == [kind |-> "table", t |-> t]
Function(name) == [kind |-> "function", name |-> name]

raw_get(table, key) == IF key \in DOMAIN table.t THEN table.t[key] ELSE Nil

Finite(neg, mag, frac) ==
    [repr |-> "f64", cls |-> "finite", neg |-> neg, mag |-> mag, big |-> FALSE, frac |-> frac]
Huge(neg) ==
    [repr |-> "f64", cls |-> "finite", neg |-> neg, mag |-> I64(0), big |-> TRUE, frac |-> "zero"]
NonFinite(cls) ==
    [repr |-> "f64", cls |-> cls, neg |-> cls = "-inf", mag |-> I64(0), big |-> FALSE, frac |-> "zero"]
is_finite(f) == f.cls = "finite"
\* n < 0.0 (false for -0.0 and for NaN)
is_below_zero(f) ==
    \/ f.cls = "-inf"
    \/ f.cls = "finite" /\ f.neg /\ (f.big \/ f.mag # I64(0) \/ f.frac # "zero")

\* floats the engine computes from other values, kept by how they were made
F64_of_i64(i) == [repr |-> "i64 as f64", i |-> i]
F64_of_f32(x) == [repr |-> "f32 as f64", x |-> x]
F32_of_f64(f) == [repr |-> "f64 as f32", f |-> f]
F32_of_i64(i) == [repr |-> "i64 as f32", i |-> i]
F32_from_bits(b) == [repr |-> "f32 bits", bits |-> b]
F64_from_bits(b) == [repr |-> "f64 bits", bits |-> b]

\* the bytes of the strings the model draws as values
as_bytes(text) ==
    CASE text = "" -> <<>>
      [] text = "%d" -> <<37, 100>>
      [] text = "a<NUL>b" -> <<97, 0, 98>>
      [] text = "int64" -> <<105, 110, 116, 54, 52>>
      [] text = "cos" -> <<99, 111, 115>>
      [] text = "libm" -> <<108, 105, 98, 109>>
      [] text = "nolib" -> <<110, 111, 108, 105, 98>>

NULL == I64(0)

(***************************************************************************)
(* types.rs: value coercion                                                *)
(***************************************************************************)
\* `truncated as i64`: the saturating cast of an integral f64
f64_as_i64(f) ==
    IF f.big \/ f.mag[8] >= 128
    THEN (IF f.neg THEN I64_MIN ELSE I64_MAX)
    ELSE (IF f.neg THEN word_neg(f.mag) ELSE f.mag)

lua_value_to_i64(value) ==
    CASE value.kind = "integer" -> Ok(value.i)
      [] value.kind = "number" ->
            IF ~is_finite(value.f) THEN Err("numeric argument must be finite")
            ELSE IF value.f.frac = "large" THEN Err("numeric argument must be integral")
            ELSE Ok(f64_as_i64(value.f))
      [] value.kind = "boolean" -> Ok(IF value.b THEN I64(1) ELSE I64(0))
      [] OTHER -> Err("expected numeric value")

reject_negative(signed) ==
    IF is_negative(signed) THEN Err("negative value provided for unsigned argument")
    ELSE Ok(signed)

lua_value_to_u64(value) == Try(lua_value_to_i64(value), reject_negative)

\* -(1i64 << (bits - 1)) and (1i64 << (bits - 1)) - 1 overflow when bits = 64:
\* a build with overflow checks panics, one without wraps
clamp_signed(value, bits) ==
    LET shifted == shl_one(bits - 1, 8)
        overflows == shifted = I64_MIN
        min == word_neg(shifted)
        max == word_dec(shifted)
    IN  IF overflows /\ overflow_checks THEN Panic("attempt to negate with overflow")
        ELSE IF lt_signed(value, min) \/ lt_signed(max, value)
        THEN Err("signed argument out of range")
        ELSE Ok(value)

clamp_unsigned(value, bits) ==
    LET max == IF bits = 64 THEN U64_MAX ELSE word_dec(shl_one(bits, 8))
    IN  IF lt_unsigned(max, value) THEN Err("unsigned argument out of range")
        ELSE Ok(value)

(***************************************************************************)
(* call.rs: ArgValue, cdata, argument conversion                           *)
(***************************************************************************)
\* An ArgValue: its variant and the integer's bytes (or the float)
ArgInt(tag, bytes) == [tag |-> tag, bytes |-> bytes]
ArgFloat(tag, f) == [tag |-> tag, f |-> f]
ArgPointer(p) == [tag |-> "Pointer", bytes |-> p]

\* ArgValue::as_arg: the libffi type whose storage the variant holds
as_arg_type(arg) ==
    CASE arg.tag = "Int8" -> "i8"
      [] arg.tag = "UInt8" -> "u8"
      [] arg.tag = "Int16" -> "i16"
      [] arg.tag = "UInt16" -> "u16"
      [] arg.tag = "Int32" -> "i32"
      [] arg.tag = "UInt32" -> "u32"
      [] arg.tag = "Int64" -> "i64"
      [] arg.tag = "UInt64" -> "u64"
      [] arg.tag = "Float32" -> "f32"
      [] arg.tag = "Float64" -> "f64"
      [] arg.tag = "Pointer" -> "pointer"

\* the type code a `__ctype` spelling or a descriptor's `code` names, if any
ctype_code(text) ==
    LET parsed == from_code(normalize_code(text))
    IN  IF IsOk(parsed) THEN Some(parsed.v) ELSE None

\* the `__ctype` field of a cdata, read into the Option<TypeCode> of CDataInfo
cdata_type_code(type_value, ptr) ==
    CASE type_value.kind = "nil" -> Ok(Some([ptr |-> ptr, type_code |-> None]))
      [] type_value.kind = "string" ->
            Ok(Some([ptr |-> ptr, type_code |-> ctype_code(type_value.text)]))
      [] type_value.kind = "table" ->
            IF raw_get(type_value, "code").kind = "string"
            THEN Ok(Some([ptr |-> ptr,
                          type_code |-> ctype_code(raw_get(type_value, "code").text)]))
            ELSE IF raw_get(type_value, "code").kind = "nil"
            THEN Ok(Some([ptr |-> ptr, type_code |-> None]))
            ELSE Err("cdata descriptor missing string code")
      [] OTHER -> Err("cdata object has invalid __ctype field")

\* the three raw fields of the table, read into a CDataInfo
cdata_info_of(marker, ptr_value, type_value) ==
    IF ~(marker.kind = "boolean" /\ marker.b) THEN Ok(None)
    ELSE IF ptr_value.kind \notin {"lightuserdata", "nil"}
    THEN Err("cdata object missing native pointer")
    ELSE cdata_type_code(type_value,
                         IF ptr_value.kind = "lightuserdata" THEN Some(ptr_value.p) ELSE None)

extract_cdata_info(table) ==
    cdata_info_of(raw_get(table, "__ffi_cdata"), raw_get(table, "__ptr"),
                  raw_get(table, "__ctype"))

\* info.ptr.unwrap_or(null) of a recognised cdata, None of another table
cdata_pointer_of(info) ==
    IF info = None THEN Ok(None)
    ELSE Ok(Some(IF IsSome(Unwrap(info).ptr) THEN Unwrap(Unwrap(info).ptr) ELSE NULL))

extract_cdata_pointer(table) == Try(extract_cdata_info(table), cdata_pointer_of)

\* Memory is a function from the mapped addresses to the 8 bytes stored there.
\* ptr::read of n bytes at a mapped address
ptr_read(mem, ptr, n) == SubSeq(mem[ptr], 1, n)

\* a read through an address that is not mapped: the process faults
Fault(msg) == [tag |-> "Fault", msg |-> msg]

\* `raw as i32` of a u8, sign-extended instead
promote_u8_sign_extended(raw) == sign_extend(raw, 4)

\* `raw as i32` of a u8
promote_u8(raw) == zero_extend(raw, 4)

\* the arms of convert_cdata_variadic_argument: raw is what is stored at the
\* address (8 bytes), of which each arm reads its own width
load_promoted(original_type, raw) ==
    CASE original_type = "Int8" ->
            Ok([arg |-> ArgInt("Int32", sign_extend(truncate(raw, 1), 4)), code |-> "Int32"])
      [] original_type = "UInt8" ->
            Ok([arg |-> ArgInt("Int32", promote_u8(truncate(raw, 1))), code |-> "Int32"])
      [] original_type = "Int16" ->
            Ok([arg |-> ArgInt("Int32", sign_extend(truncate(raw, 2), 4)), code |-> "Int32"])
      [] original_type = "UInt16" ->
            Ok([arg |-> ArgInt("Int32", zero_extend(truncate(raw, 2), 4)), code |-> "Int32"])
      [] original_type = "Int32" ->
            Ok([arg |-> ArgInt("Int32", truncate(raw, 4)), code |-> "Int32"])
      [] original_type = "UInt32" ->
            Ok([arg |-> ArgInt("UInt32", truncate(raw, 4)), code |-> "UInt32"])
      [] original_type = "Int64" -> Ok([arg |-> ArgInt("Int64", raw), code |-> "Int64"])
      [] original_type = "UInt64" -> Ok([arg |-> ArgInt("UInt64", raw), code |-> "UInt64"])
      [] original_type = "IntPtr" ->
            IF pointer_width = 64
            THEN Ok([arg |-> ArgInt("Int64", raw), code |-> "IntPtr"])
            ELSE Ok([arg |-> ArgInt("Int32", truncate(raw, 4)), code |-> "IntPtr"])
      [] original_type = "UIntPtr" ->
            IF pointer_width = 64
            THEN Ok([arg |-> ArgInt("UInt64", raw), code |-> "UIntPtr"])
            ELSE Ok([arg |-> ArgInt("UInt32", truncate(raw, 4)), code |-> "UIntPtr"])
      [] original_type = "Float32" ->
            Ok([arg |-> ArgFloat("Float64", F64_of_f32(F32_from_bits(truncate(raw, 4)))),
                code |-> "Float64"])
      [] original_type = "Float64" ->
            Ok([arg |-> ArgFloat("Float64", F64_from_bits(raw)), code |-> "Float64"])
      [] original_type = "Pointer" ->
            Ok([arg |-> ArgPointer(zero_extend(truncate(raw, pointer_width \div 8), 8)),
                code |-> "Pointer"])

convert_cdata_variadic_argument(info, original_type, mem) ==
    IF info.ptr = None THEN Err("cdata value missing native storage pointer")
    ELSE IF original_type = "Void" THEN Err("void type cannot be used as a variadic argument")
    ELSE IF Unwrap(info.ptr) \notin DOMAIN mem THEN Fault("read of an unmapped address")
    ELSE load_promoted(original_type, ptr_read(mem, Unwrap(info.ptr), 8))

\* the address of the buffer of the k-th CString of the anchor list
anchor_ptr(k) == <<k, 0, 0, 112, 0, 0, 0, 0>>

\* CString::new(s.as_bytes()) pushed onto string_refs; the argument is its address
anchor_string(text, string_refs) ==
    IF \E i \in 1..Len(as_bytes(text)) : as_bytes(text)[i] = 0
    THEN Err("string argument contains NUL byte")
    ELSE Ok([arg |-> ArgPointer(anchor_ptr(Len(string_refs) + 1)),
             code |-> "Pointer",
             refs |-> Append(string_refs, as_bytes(text) \o <<0>>)])

\* a conversion that pushes no anchor
Converted(arg, code, string_refs) == Ok([arg |-> arg, code |-> code, refs |-> string_refs])

\* the signed arms of convert_typed_argument without the clamp: `as` alone
typed_signed_wrapping(value, bits, tag, code, string_refs) ==
    Try(lua_value_to_i64(value),
        LAMBDA c : Converted(ArgInt(tag, truncate(c, size_of(code))), code, string_refs))

\* the integer arms of convert_typed_argument: coerce, clamp to `bits`, `as` the
\* variant's type
typed_signed(value, bits, tag, code, string_refs) ==
    Try(lua_value_to_i64(value),
        LAMBDA x : Try(clamp_signed(x, bits),
                       LAMBDA c : Converted(ArgInt(tag, truncate(c, size_of(code))),
                                            code, string_refs)))

typed_unsigned(value, bits, tag, code, string_refs) ==
    Try(lua_value_to_u64(value),
        LAMBDA x : Try(clamp_unsigned(x, bits),
                       LAMBDA c : Converted(ArgInt(tag, truncate(c, size_of(code))),
                                            code, string_refs)))

\* usize::MAX, zero-extended to 8 bytes
USIZE_MAX == IF pointer_width = 64 THEN U64_MAX ELSE I64_U32_MAX

\* usize::try_from(i) of an i64
usize_try_from(i) ==
    IF is_negative(i) \/ lt_unsigned(USIZE_MAX, i) THEN Err("negative pointer value") ELSE Ok(i)

\* `n as usize` of a non-negative f64: the saturating cast
f64_as_usize(f) ==
    IF f.big \/ lt_unsigned(USIZE_MAX, f.mag) THEN USIZE_MAX ELSE f.mag

typed_float(value, tag, string_refs, what) ==
    CASE value.kind = "number" ->
            Converted(ArgFloat(tag, IF tag = "Float32" THEN F32_of_f64(value.f) ELSE value.f),
                      tag, string_refs)
      [] value.kind = "integer" ->
            Converted(ArgFloat(tag, IF tag = "Float32" THEN F32_of_i64(value.i)
                                    ELSE F64_of_i64(value.i)),
                      tag, string_refs)
      [] value.kind = "boolean" ->
            Converted(ArgFloat(tag, IF tag = "Float32"
                                    THEN F32_of_i64(IF value.b THEN I64(1) ELSE I64(0))
                                    ELSE F64_of_i64(IF value.b THEN I64(1) ELSE I64(0))),
                      tag, string_refs)
      [] OTHER -> Err(what)

\* the Table arm of the pointer conversion, after extract_cdata_pointer
typed_pointer_of_table(ptr, string_refs) ==
    IF ptr = None THEN Err("cannot convert table value to pointer argument")
    ELSE Converted(ArgPointer(Unwrap(ptr)), "Pointer", string_refs)

typed_pointer(value, string_refs) ==
    CASE value.kind = "nil" -> Converted(ArgPointer(NULL), "Pointer", string_refs)
      [] value.kind = "lightuserdata" -> Converted(ArgPointer(value.p), "Pointer", string_refs)
      [] value.kind = "table" ->
            Try(extract_cdata_pointer(value),
                LAMBDA ptr : typed_pointer_of_table(ptr, string_refs))
      [] value.kind = "integer" ->
            Try(usize_try_from(value.i),
                LAMBDA address : Converted(ArgPointer(address), "Pointer", string_refs))
      [] value.kind = "number" ->
            IF ~is_finite(value.f) THEN Err("pointer value must be finite")
            ELSE IF is_below_zero(value.f) THEN Err("pointer value must be non-negative")
            ELSE IF value.f.frac = "large" THEN Err("pointer value must be integral")
            ELSE Converted(ArgPointer(f64_as_usize(value.f)), "Pointer", string_refs)
      [] value.kind = "string" -> anchor_string(value.text, string_refs)
      [] OTHER -> Err("cannot convert value to pointer argument")

\* the type codes whose arm clamps a signed (unsigned) integer, and the width
\* and ArgValue variant of each arm
clamped_bits(ty) ==
    CASE ty \in {"Int8", "UInt8"} -> 8
      [] ty \in {"Int16", "UInt16"} -> 16
      [] ty \in {"Int32", "UInt32"} -> 32
      [] ty \in {"IntPtr", "UIntPtr"} -> pointer_width

clamped_variant(ty) ==
    CASE ty = "IntPtr" -> IF pointer_width = 64 THEN "Int64" ELSE "Int32"
      [] ty = "UIntPtr" -> IF pointer_width = 64 THEN "UInt64" ELSE "UInt32"
      [] OTHER -> ty

convert_typed_argument(value, ty, string_refs) ==
    CASE ty = "Void" -> Err("void type cannot be used as a function argument")
      [] ty \in {"Int8", "Int16", "Int32", "IntPtr"} ->
            typed_signed(value, clamped_bits(ty), clamped_variant(ty), ty, string_refs)
      [] ty \in {"UInt8", "UInt16", "UInt32", "UIntPtr"} ->
            typed_unsigned(value, clamped_bits(ty), clamped_variant(ty), ty, string_refs)
      [] ty = "Int64" ->
            Try(lua_value_to_i64(value),
                LAMBDA x : Converted(ArgInt("Int64", x), ty, string_refs))
      [] ty = "UInt64" ->
            Try(lua_value_to_u64(value),
                LAMBDA x : Converted(ArgInt("UInt64", x), ty, string_refs))
      [] ty \in {"Float32", "Float64"} ->
            typed_float(value, ty, string_refs,
                        IF ty = "Float32" THEN "expected numeric value for float argument"
                        ELSE "expected numeric value for double argument")
      [] ty = "Pointer" -> typed_pointer(value, string_refs)

\* the Boolean arm of convert_variadic_argument, passing the byte-wide bool
variadic_boolean_unpromoted(b, string_refs) ==
    Converted(ArgInt("UInt8", IF b THEN <<1>> ELSE <<0>>), "UInt8", string_refs)

\* the Boolean arm of convert_variadic_argument
variadic_boolean(b, string_refs) ==
    Converted(ArgInt("Int32", le_bytes(IF b THEN 1 ELSE 0, 4)), "Int32", string_refs)

\* the Table arm of convert_variadic_argument, after extract_cdata_info
variadic_cdata(info, string_refs, mem) ==
    IF info = None THEN Err("cannot infer C type for variadic table argument")
    ELSE IF IsSome(Unwrap(info).type_code)
    THEN IF Unwrap(Unwrap(info).type_code) = "Pointer"
         THEN Converted(ArgPointer(IF IsSome(Unwrap(info).ptr)
                                   THEN Unwrap(Unwrap(info).ptr) ELSE NULL),
                        "Pointer", string_refs)
         ELSE Try(convert_cdata_variadic_argument(Unwrap(info),
                                                  Unwrap(Unwrap(info).type_code), mem),
                  LAMBDA loaded : Converted(loaded.arg, loaded.code, string_refs))
    ELSE IF IsSome(Unwrap(info).ptr)
    THEN Converted(ArgPointer(Unwrap(Unwrap(info).ptr)), "Pointer", string_refs)
    ELSE Err("cannot infer C type for variadic cdata argument")

\* the Integer arm of convert_variadic_argument
variadic_integer(i, string_refs) ==
    IF pointer_width = 64 THEN Converted(ArgInt("Int64", i), "Int64", string_refs)
    ELSE Try(clamp_signed(i, 32),
             LAMBDA clamped : Converted(ArgInt("Int32", truncate(clamped, 4)),
                                        "Int32", string_refs))

convert_variadic_argument(value, string_refs, mem) ==
    CASE value.kind = "nil" -> Converted(ArgPointer(NULL), "Pointer", string_refs)
      [] value.kind = "lightuserdata" -> Converted(ArgPointer(value.p), "Pointer", string_refs)
      [] value.kind = "table" ->
            Try(extract_cdata_info(value), LAMBDA info : variadic_cdata(info, string_refs, mem))
      [] value.kind = "string" -> anchor_string(value.text, string_refs)
      [] value.kind = "boolean" -> variadic_boolean(value.b, string_refs)
      [] value.kind = "integer" -> variadic_integer(value.i, string_refs)
      [] value.kind = "number" ->
            IF ~is_finite(value.f) THEN Err("numeric argument must be finite")
            ELSE Converted(ArgFloat("Float64", value.f), "Float64", string_refs)
      [] OTHER -> Err("cannot infer C type for variadic argument")

\* convert_argument: ty is the Option<&CType>
convert_argument(value, ty, string_refs, mem) ==
    IF IsSome(ty) THEN convert_typed_argument(value, Unwrap(ty), string_refs)
    ELSE convert_variadic_argument(value, string_refs, mem)

\* An args table: its `n` field (Option) and its positional entries
\* (raw_len(args_table) = Len(items), a raw_get past them is nil).
raw_get_index(args_table, index) ==
    IF index <= Len(args_table.items) THEN args_table.items[index] ELSE Nil

\* the count of collect_arguments: explicit_n.unwrap_or_else(raw_len)
argument_count(args_table) ==
    IF IsSome(args_table.n) THEN Unwrap(args_table.n) ELSE Len(args_table.items)

\* the arity check with the variadic bound off by one
check_arity_strict_variadic(signature, arg_count) ==
    IF signature.variadic
    THEN IF arg_count <= signature.fixed_count
         THEN Err("function expected at least fixed_count argument(s)")
         ELSE Ok(TRUE)
    ELSE IF arg_count # Len(signature.args)
         THEN Err("function expected a different number of argument(s)")
         ELSE Ok(TRUE)

\* the arity check of collect_arguments
check_arity(signature, arg_count) ==
    IF signature.variadic
    THEN IF arg_count < signature.fixed_count
         THEN Err("function expected at least fixed_count argument(s)")
         ELSE Ok(TRUE)
    ELSE IF arg_count # Len(signature.args)
         THEN Err("function expected a different number of argument(s)")
         ELSE Ok(TRUE)

\* signature.args().get(index) that forgets the hints of the variadic tail
type_hint_fixed_only(signature, index) ==
    IF index < signature.fixed_count THEN Some(signature.args[index + 1]) ELSE None

\* signature.args().get(index), index counted from 0
type_hint(signature, index) ==
    IF index < Len(signature.args) THEN Some(signature.args[index + 1]) ELSE None

\* one round of the loop of collect_arguments: the value at `index` converted
\* under its type hint (a fixed or non-variadic index needs one)
convert_at(value, hint, declared, string_refs, mem) ==
    IF declared /\ hint = None THEN Err("missing type information for argument")
    ELSE convert_argument(value, hint, string_refs, mem)

\* a push that gives an FFI type to the hinted arguments only
pushed_hinted_types_only(acc, converted, hint) ==
    [values |-> Append(acc.values, converted.arg),
     arg_types |-> IF IsSome(hint)
                   THEN Append(acc.arg_types, to_libffi_type(Unwrap(hint)))
                   ELSE acc.arg_types,
     string_refs |-> converted.refs]

\* arg_types.push(..); values.push(arg)
pushed(acc, converted, hint) ==
    [values |-> Append(acc.values, converted.arg),
     arg_types |-> Append(acc.arg_types,
                          IF IsSome(hint) THEN to_libffi_type(Unwrap(hint))
                          ELSE to_libffi_type(converted.code)),
     string_refs |-> converted.refs]

RECURSIVE marshal_from(_, _, _, _, _, _)
\* the loop of collect_arguments from `index` on; acc holds values, arg_types
\* and string_refs as built so far
marshal_from(index, arg_count, args_table, signature, acc, mem) ==
    IF index >= arg_count THEN Ok(acc)
    ELSE Try(convert_at(raw_get_index(args_table, index + 1),
                        type_hint(signature, index),
                        index < signature.fixed_count \/ ~signature.variadic,
                        acc.string_refs, mem),
             LAMBDA converted :
                 marshal_from(index + 1, arg_count, args_table, signature,
                              pushed(acc, converted, type_hint(signature, index)), mem))

collect_arguments(args_table, signature, mem) ==
    IF u32_field_fails(args_table.n) THEN Err("error converting Lua number to u32")
    ELSE Try(check_arity(signature, argument_count(args_table)),
             LAMBDA arity :
                 marshal_from(0, argument_count(args_table), args_table, signature,
                              [values |-> <<>>, arg_types |-> <<>>, string_refs |-> <<>>],
                              mem))

\* the Pointer arm of call_with_signature returning a light userdata always
pointer_result_never_nil(address) == LightUserData(address)

\* the Pointer arm of call_with_signature: nil of the null pointer
pointer_result(address) == IF address = NULL THEN Nil ELSE LightUserData(address)

\* call_with_signature: the script value made of the native return value
\* (raw: the 8 bytes of the return register)
call_result(code, raw) ==
    CASE code = "Void" -> Nil
      [] code = "Int8" -> Integer(sign_extend(truncate(raw, 1), 8))
      [] code = "UInt8" -> Integer(zero_extend(truncate(raw, 1), 8))
      [] code = "Int16" -> Integer(sign_extend(truncate(raw, 2), 8))
      [] code = "UInt16" -> Integer(zero_extend(truncate(raw, 2), 8))
      [] code = "Int32" -> Integer(sign_extend(truncate(raw, 4), 8))
      [] code = "UInt32" -> Integer(zero_extend(truncate(raw, 4), 8))
      [] code = "Int64" -> Integer(raw)
      [] code = "UInt64" ->
            IF ~is_negative(raw) THEN Integer(raw) ELSE Number([repr |-> "u64 as f64", u |-> raw])
      [] code = "IntPtr" ->
            IF pointer_width = 64 THEN Integer(raw)
            ELSE Integer(sign_extend(truncate(raw, 4), 8))
      [] code = "UIntPtr" ->
            IF pointer_width = 64
            THEN (IF ~is_negative(raw) THEN Integer(raw)
                  ELSE Number([repr |-> "u64 as f64", u |-> raw]))
            ELSE Integer(zero_extend(truncate(raw, 4), 8))
      [] code = "Float32" -> Number(F64_of_f32(F32_from_bits(truncate(raw, 4))))
      [] code = "Float64" -> Number(F64_from_bits(raw))
      [] code = "Pointer" ->
            pointer_result(zero_extend(truncate(raw, pointer_width \div 8), 8))

(***************************************************************************)
(* SpecSig: Signature::from_table applied to a signature table             *)
(***************************************************************************)
MaxArgs == 2

SigAbis == {None, Some("cdecl"), Some("sysv"), Some("stdcall"), Some("fastcall")}
SigArgDescs == {DescString("int32"), DescTable(Some("Double\t")), DescString("int128")}
SigResultDescs == {DescString("void"), DescTable(None)}

RECURSIVE SeqsUpTo(_, _)
\* the sequences over S of length at most n
SeqsUpTo(S, n) ==
    IF n = 0 THEN {<<>>}
    ELSE LET shorter == SeqsUpTo(S, n - 1)
         IN  shorter \cup {Append(s, x) : s \in {t \in shorter : Len(t) = n - 1}, x \in S}

SigTables ==
    [abi : SigAbis,
     result : SigResultDescs,
     args : {None} \cup {Some(a) : a \in SeqsUpTo(SigArgDescs, MaxArgs)},
     variadic : {None, Some(TRUE), Some(FALSE)},
     fixedCount : {None} \cup {Some(n) : n \in -1..(MaxArgs + 1)}]

SigInit ==
    /\ sig_table \in {Some(t) : t \in SigTables}
    /\ sig_result = None

\* the construction of a Signature from the drawn table
FromTable ==
    /\ sig_result = None
    /\ sig_result' = Some(from_table(Unwrap(sig_table)))
    /\ UNCHANGED <<sig_table, buildVars, lateVars, nativeVars, callVars, variadicVars, callbackVars, loaderVars>>

vars ==
    <<buildVars, sigVars, callVars, variadicVars, callbackVars, loaderVars, nativeVars, lateVars>>

InitSig == BuildInit /\ LateIdle /\ SigInit /\ CallIdle /\ VariadicIdle /\ CallbackIdle /\ LoaderIdle /\ NativeIdle
NextSig == FromTable
SpecSig == InitSig /\ [][NextSig]_vars

\* what the table declares, read off the table itself
DeclaredVariadic(t) == t.variadic = Some(TRUE)
DeclaredArgCount(t) == Len(Unwrap(t.args))
DeclaredFixedCount(t) ==
    IF IsSome(t.fixedCount) THEN Unwrap(t.fixedCount) ELSE DeclaredArgCount(t)
ViolatesSignatureInvariant(t) ==
    \/ DeclaredFixedCount(t) < 0
    \/ DeclaredFixedCount(t) > DeclaredArgCount(t)
    \/ ~DeclaredVariadic(t) /\ DeclaredFixedCount(t) # DeclaredArgCount(t)

\* C1: from_table succeeds only on tables with 0 <= fixedCount <= len(args) and,
\* when not variadic, fixedCount = len(args); every table violating either
\* condition fails; fixedCount defaults to len(args) and variadic to false; so
\* every constructed Signature satisfies both conditions.
C1_SignatureInvariant ==
    IsSome(sig_result) =>
        LET t == Unwrap(sig_table)
            r == Unwrap(sig_result)
        IN  /\ (IsSome(t.args) /\ ViolatesSignatureInvariant(t)) => IsErr(r)
            /\ IsOk(r) =>
                  /\ 0 <= r.v.fixed_count
                  /\ r.v.fixed_count <= Len(r.v.args)
                  /\ ~r.v.variadic => r.v.fixed_count = Len(r.v.args)
                  /\ Len(r.v.args) = DeclaredArgCount(t)
                  /\ r.v.fixed_count = DeclaredFixedCount(t)
                  /\ r.v.variadic = DeclaredVariadic(t)
                  /\ t.fixedCount = None => r.v.fixed_count = Len(r.v.args)
                  /\ t.variadic = None => r.v.variadic = FALSE

\* a variadic signature with fewer fixed arguments than arguments was built,
\* and one with defaulted fields too
C1_Witness ==
    /\ IsSome(sig_result)
    /\ IsOk(Unwrap(sig_result))
    /\ Unwrap(sig_result).v.variadic
    /\ Unwrap(sig_result).v.fixed_count = 1
    /\ Len(Unwrap(sig_result).v.args) = 2

(***************************************************************************)
(* SpecCall: call(func, signature_table, args_table)                       *)
(***************************************************************************)
MaxCount == 3

\* the memory the cdata arguments of the model point into
A1 == <<16, 0, 0, 96, 0, 0, 0, 0>>
A2 == <<24, 0, 0, 96, 0, 0, 0, 0>>
CallMem == (A1 :> <<255, 128, 1, 2, 3, 4, 5, 250>>) @@ (A2 :> <<7, 0, 0, 0, 0, 0, 0, 0>>)

CData(ptr, ctype) ==
    Table([__ffi_cdata |-> Boolean(TRUE), __ptr |-> ptr, __ctype |-> ctype])

CallArgDescs == {DescString("int8"), DescString("pointer")}
CallValues == {Integer(I64(5)), String("%d"), CData(LightUserData(A1), String("uint8"))}

CallSigTables ==
    [abi : {None},
     result : {DescString("int32")},
     args : {Some(a) : a \in SeqsUpTo(CallArgDescs, MaxArgs)},
     variadic : {None, Some(TRUE)},
     fixedCount : {None} \cup {Some(n) : n \in 0..MaxArgs}]

CallArgsTables ==
    [n : {None} \cup {Some(n) : n \in -1..MaxCount},
     items : SeqsUpTo(CallValues, MaxCount)]

\* the native function called, given by what it may leave in the return register
NativeReturns == {I64(42), I64(-1)}

CallInit ==
    /\ call_in \in {Some([sig_table |-> s, args_table |-> a, func |-> NativeReturns]) :
                        s \in CallSigTables, a \in CallArgsTables}
    /\ call_st = CallIdleState

\* call() after from_table entering the native function whatever
\* collect_arguments returned
call_collected_unchecked(st, signature, collected) ==
    [st EXCEPT !.pc = "in_native", !.signature = Some(signature),
               !.collected = Some(collected),
               !.cif = Some(build_cif(signature, IF IsOk(collected)
                                                 THEN collected.v.arg_types ELSE <<>>)),
               !.anchors = IF IsOk(collected) THEN collected.v.string_refs ELSE <<>>,
               !.invoked = 1]

\* call() after from_table: collect_arguments and build_cif
call_collected(st, signature, collected) ==
    IF ~IsOk(collected)
    THEN [st EXCEPT !.pc = "returned", !.signature = Some(signature),
                    !.collected = Some(collected), !.result = Some(collected)]
    ELSE [st EXCEPT !.pc = "in_native", !.signature = Some(signature),
                    !.collected = Some(collected),
                    !.cif = Some(build_cif(signature, collected.v.arg_types)),
                    !.anchors = collected.v.string_refs,
                    !.invoked = 1]

\* call() up to the entry into the native function
call_entered(st, signature, args_table, mem) ==
    IF ~IsOk(signature)
    THEN [st EXCEPT !.pc = "returned", !.result = Some(signature)]
    ELSE call_collected(st, signature.v, collect_arguments(args_table, signature.v, mem))

\* call() up to the entry into the native function: from_table, collect_arguments,
\* build_cif; an error returns it at once (and drops the anchors)
CallMarshal ==
    /\ call_st.pc = "idle"
    /\ call_st' = call_entered(call_st, from_table(Unwrap(call_in).sig_table),
                               Unwrap(call_in).args_table, CallMem)
    /\ UNCHANGED <<call_in, buildVars, lateVars, nativeVars, sigVars, variadicVars, callbackVars, loaderVars>>

\* the native function returns: call_with_signature makes the script value,
\* call returns and the anchors drop
NativeReturn ==
    /\ call_st.pc = "in_native"
    /\ \E raw \in Unwrap(call_in).func :
         call_st' = [call_st EXCEPT
                        !.pc = "returned",
                        !.anchors = <<>>,
                        !.raw = Some(raw),
                        !.result = Some(Ok(call_result(Unwrap(call_st.signature).result, raw)))]
    /\ UNCHANGED <<call_in, buildVars, lateVars, nativeVars, sigVars, variadicVars, callbackVars, loaderVars>>

InitCall == BuildInit /\ LateIdle /\ CallInit /\ SigIdle /\ VariadicIdle /\ CallbackIdle /\ LoaderIdle /\ NativeIdle
NextCall == CallMarshal \/ NativeReturn
SpecCall == InitCall /\ [][NextCall]_vars

IsArityError(r) ==
    /\ IsErr(r)
    /\ r.msg \in {"function expected at least fixed_count argument(s)",
                  "function expected a different number of argument(s)"}

\* the count the script passed, read off the args table
PassedCount(a) == IF IsSome(a.n) THEN Unwrap(a.n) ELSE Len(a.items)

\* C2: the argument count is the `n` field when present and the sequence length
\* otherwise; a non-variadic call proceeds only if count = len(args), a variadic
\* one only if count >= fixed_count; every other call returns an arity error.
\* (An `n` that is no unsigned integer fails before it is a count.)
C2_ArityCheck ==
    (call_st.pc # "idle" /\ IsSome(call_st.signature)
        /\ ~u32_field_fails(Unwrap(call_in).args_table.n)) =>
        LET a == Unwrap(call_in).args_table
            sig == Unwrap(call_st.signature)
            count == PassedCount(a)
            fits == IF sig.variadic THEN count >= sig.fixed_count
                    ELSE count = Len(sig.args)
            outcome == Unwrap(call_st.collected)
        IN  /\ ~fits <=> IsArityError(outcome)
            /\ ~fits => (call_st.pc = "returned" /\ call_st.invoked = 0
                          /\ call_st.result = Some(outcome))
            /\ IsOk(outcome) => Len(outcome.v.values) = count

\* a variadic call with exactly fixed_count arguments went through, counted by `n`
C2_Witness ==
    /\ call_st.pc = "in_native"
    /\ Unwrap(call_st.signature).variadic
    /\ Unwrap(call_st.signature).fixed_count = 1
    /\ Unwrap(call_in).args_table.n = Some(1)
    /\ Len(Unwrap(call_in).args_table.items) = 2

\* how the value at index i (from 0) should have been marshalled, on its own
ExpectedConversion(sig, value, i) ==
    IF i < sig.fixed_count \/ i < Len(sig.args)
    THEN convert_typed_argument(value, sig.args[i + 1], <<>>)
    ELSE convert_variadic_argument(value, <<>>, CallMem)

\* C3: for every index i < count, if i < fixed_count the value is marshalled by
\* the typed rules of the declared type and the declared FFI type is appended;
\* in the variadic tail a hint, when there is one, is used with typed
\* marshalling, and otherwise the type is inferred from the value and the
\* inferred FFI type appended; the FFI type at i is the type of the storage
\* the value at i was marshalled into.
C3_MarshalledUnderFfiType ==
    (call_st.pc = "in_native") =>
        LET a == Unwrap(call_in).args_table
            sig == Unwrap(call_st.signature)
            got == Unwrap(call_st.collected).v
            cif == Unwrap(call_st.cif)
        IN  \A i \in 0..(PassedCount(a) - 1) :
                LET value == raw_get_index(a, i + 1)
                    expected == ExpectedConversion(sig, value, i)
                IN  /\ IsOk(expected)
                    /\ got.values[i + 1].tag = expected.v.arg.tag
                    /\ value.kind # "string" => got.values[i + 1] = expected.v.arg
                    /\ cif.arg_types[i + 1] = to_libffi_type(expected.v.code)
                    /\ cif.arg_types[i + 1] = as_arg_type(got.values[i + 1])
                    /\ (i < sig.fixed_count \/ i < Len(sig.args)) =>
                          cif.arg_types[i + 1] = to_libffi_type(sig.args[i + 1])

\* a variadic call marshalled a fixed argument, a hinted one and an inferred
\* one (a cdata loaded and promoted)
C3_Witness ==
    /\ call_st.pc = "in_native"
    /\ Unwrap(call_st.signature).variadic
    /\ Unwrap(call_st.signature).fixed_count = 1
    /\ Len(Unwrap(call_st.signature).args) = 2
    /\ Len(Unwrap(call_st.collected).v.values) = 3
    /\ Unwrap(call_in).args_table.items[3].kind = "table"
    /\ Unwrap(call_st.cif).arg_types[3] = "i32"

(***************************************************************************)
(* SpecVariadic: convert_variadic_argument on one un-hinted argument       *)
(***************************************************************************)
\* an address nothing is mapped at
A3 == <<32, 0, 0, 96, 0, 0, 0, 0>>

VariadicIntegers == {I64(5), I64(-1), I64_I32_MAX, I64_I32_MIN, I64_2P31, I64_BELOW_I32}

VariadicNumbers ==
    {Finite(FALSE, I64(3), "large"), Finite(TRUE, I64(0), "zero"), Huge(FALSE),
     NonFinite("nan"), NonFinite("inf"), NonFinite("-inf")}

\* what a script may store in the `__ptr` and `__ctype` fields of a table
CDataPtrs ==
    {Nil, LightUserData(A1), LightUserData(A2), LightUserData(A3), LightUserData(NULL),
     Integer(I64(5))}

CDataCodes ==
    {"void", "int8", "uint8", "int16", "uint16", "int32", "uint32", "int64", "uint64",
     "intptr_t", "size_t", "float", "double", "pointer", " Int32 ", "struct"}

CDataCTypes ==
    {Nil, Boolean(TRUE), Table([code |-> String("float")]), Table([code |-> Integer(I64(5))]),
     Table([name |-> String("float")])}
        \cup {String(c) : c \in CDataCodes}

VariadicTables ==
    {CData(ptr, ctype) : ptr \in CDataPtrs, ctype \in CDataCTypes}
        \cup {Table([__ptr |-> LightUserData(A1), __ctype |-> String("int32")]),
              Table([__ffi_cdata |-> Boolean(FALSE), __ptr |-> LightUserData(A1),
                     __ctype |-> String("int32")]),
              Table([__ffi_cdata |-> Integer(I64(5)), __ptr |-> LightUserData(A1),
                     __ctype |-> String("int32")])}

VariadicValues ==
    {Nil, Boolean(TRUE), Boolean(FALSE), LightUserData(A1), LightUserData(NULL),
     String(""), String("%d"), String("a<NUL>b"), Function("g")}
        \cup {Integer(i) : i \in VariadicIntegers}
        \cup {Number(f) : f \in VariadicNumbers}
        \cup VariadicTables

\* the anchors earlier arguments of the call have pushed
VariadicRefs == {<<>>, <<as_bytes("%d") \o <<0>> >>}

VariadicInit ==
    /\ va_in \in {Some([value |-> v, refs |-> r]) : v \in VariadicValues, r \in VariadicRefs}
    /\ va_out = None

\* collect_arguments reaches an index of the variadic tail that has no type hint
ConvertVariadic ==
    /\ va_out = None
    /\ va_out' = Some(convert_variadic_argument(Unwrap(va_in).value, Unwrap(va_in).refs,
                                                CallMem))
    /\ UNCHANGED <<va_in, buildVars, lateVars, nativeVars, sigVars, callVars, callbackVars, loaderVars>>

InitVariadic ==
    BuildInit /\ LateIdle /\ VariadicInit /\ SigIdle /\ CallIdle /\ CallbackIdle /\ LoaderIdle /\ NativeIdle
NextVariadic == ConvertVariadic
SpecVariadic == InitVariadic /\ [][NextVariadic]_vars

\* an i64 that an i32 holds
FitsI32(w) == sign_extend(truncate(w, 4), 8) = w

\* the result that passes `arg` under `code` and pushes no anchor
Passes(out, arg, code) ==
    out = Ok([arg |-> arg, code |-> code, refs |-> Unwrap(va_in).refs])

\* the result that passes a pointer to a new anchor holding the bytes and a NUL
PassesOwnedCopy(out, bytes) ==
    /\ IsOk(out)
    /\ out.v.code = "Pointer"
    /\ out.v.refs = Append(Unwrap(va_in).refs, bytes \o <<0>>)
    /\ out.v.arg = ArgPointer(anchor_ptr(Len(out.v.refs)))

\* the rules of the claim for the kinds other than number and string
InferredOtherKinds(value, out) ==
    CASE value.kind = "nil" -> Passes(out, ArgPointer(NULL), "Pointer")
      [] value.kind = "lightuserdata" -> Passes(out, ArgPointer(value.p), "Pointer")
      [] value.kind = "boolean" ->
            Passes(out, ArgInt("Int32", IF value.b THEN <<1, 0, 0, 0>> ELSE <<0, 0, 0, 0>>),
                   "Int32")
      [] value.kind = "integer" ->
            IF pointer_width = 64 THEN Passes(out, ArgInt("Int64", value.i), "Int64")
            ELSE IF FitsI32(value.i)
            THEN Passes(out, ArgInt("Int32", truncate(value.i, 4)), "Int32")
            ELSE IsErr(out)
      [] OTHER -> IsErr(out)

HasMarker(t) == raw_get(t, "__ffi_cdata") = Boolean(TRUE)
PtrField(t) == raw_get(t, "__ptr")
\* the spelling of the type descriptor: the string itself or the `code` of a table
DescriptorSpelling(t) ==
    LET c == raw_get(t, "__ctype")
    IN  IF c.kind = "string" THEN Some(c.text)
        ELSE IF c.kind = "table" /\ raw_get(c, "code").kind = "string"
        THEN Some(raw_get(c, "code").text)
        ELSE None
\* a `__ctype` that is neither absent, a string nor a table with an absent or
\* string `code`
DescriptorMalformed(t) ==
    LET c == raw_get(t, "__ctype")
    IN  \/ c.kind \notin {"nil", "string", "table"}
        \/ c.kind = "table" /\ raw_get(c, "code").kind \notin {"nil", "string"}
\* the recognised type code of the descriptor, if it has one
DescriptorCode(t) ==
    IF DescriptorSpelling(t) = None THEN None
    ELSE LET parsed == from_code(normalize_code(Unwrap(DescriptorSpelling(t))))
         IN  IF IsOk(parsed) THEN Some(parsed.v) ELSE None

\* the C default promotion of the value of type `code` stored in `raw`, by the
\* number the bytes stand for
Promoted(code, raw) ==
    CASE code = "Int8" -> [arg |-> ArgInt("Int32", le_bytes(signed_value(truncate(raw, 1)), 4)),
                           code |-> "Int32"]
      [] code = "UInt8" -> [arg |-> ArgInt("Int32", le_bytes(unsigned_value(truncate(raw, 1)), 4)),
                            code |-> "Int32"]
      [] code = "Int16" -> [arg |-> ArgInt("Int32", le_bytes(signed_value(truncate(raw, 2)), 4)),
                            code |-> "Int32"]
      [] code = "UInt16" -> [arg |-> ArgInt("Int32", le_bytes(unsigned_value(truncate(raw, 2)), 4)),
                             code |-> "Int32"]
      [] code = "Int32" -> [arg |-> ArgInt("Int32", truncate(raw, 4)), code |-> "Int32"]
      [] code = "UInt32" -> [arg |-> ArgInt("UInt32", truncate(raw, 4)), code |-> "UInt32"]
      [] code = "Int64" -> [arg |-> ArgInt("Int64", raw), code |-> "Int64"]
      [] code = "UInt64" -> [arg |-> ArgInt("UInt64", raw), code |-> "UInt64"]
      [] code = "IntPtr" ->
            [arg |-> ArgInt(IF pointer_width = 64 THEN "Int64" ELSE "Int32",
                            truncate(raw, pointer_width \div 8)),
             code |-> "IntPtr"]
      [] code = "UIntPtr" ->
            [arg |-> ArgInt(IF pointer_width = 64 THEN "UInt64" ELSE "UInt32",
                            truncate(raw, pointer_width \div 8)),
             code |-> "UIntPtr"]
      [] code = "Float32" ->
            [arg |-> ArgFloat("Float64", F64_of_f32(F32_from_bits(truncate(raw, 4)))),
             code |-> "Float64"]
      [] code = "Float64" -> [arg |-> ArgFloat("Float64", F64_from_bits(raw)), code |-> "Float64"]
      [] code = "Pointer" ->
            [arg |-> ArgPointer(zero_extend(truncate(raw, pointer_width \div 8), 8)),
             code |-> "Pointer"]

PassesPromoted(out, code, raw) ==
    Passes(out, Promoted(code, raw).arg, Promoted(code, raw).code)

\* the rules for a cdata whose descriptor names a recognised type code
PromotedCData(t, code, out) ==
    CASE code = "Pointer" ->
            Passes(out, ArgPointer(IF PtrField(t).kind = "nil" THEN NULL ELSE PtrField(t).p),
                   "Pointer")
      [] code # "Pointer" /\ (PtrField(t).kind = "nil" \/ code = "Void") -> IsErr(out)
      [] OTHER ->
            PtrField(t).p \in DOMAIN CallMem => PassesPromoted(out, code, CallMem[PtrField(t).p])

CALLBACK_RESULT_SIZE == 16

zeroed(n) == [i \in 1..n |-> 0]

\* to_ne_bytes of the f64 and f32 values the model draws (the targets are
\* little-endian): the finite numbers are 3.5 (integer part 3), 0.1 (integer
\* part 0), -2 (integer part 2), 2^63 and 2^64 (the big one); the NaN is the
\* canonical quiet NaN.  0.1 is no f32: `as f32` rounds it to 0x3DCCCCCD.
f64_to_ne_bytes(f) ==
    CASE f.repr = "f64" /\ f.cls = "nan" -> <<0, 0, 0, 0, 0, 0, 248, 127>>
      [] f.repr = "f64" /\ f.cls = "inf" -> <<0, 0, 0, 0, 0, 0, 240, 127>>
      [] f.repr = "f64" /\ f.cls = "finite" ->
            (CASE f.big -> <<0, 0, 0, 0, 0, 0, 240, 67>>
              [] ~f.big /\ f.mag = I64(3) /\ f.frac = "large" -> <<0, 0, 0, 0, 0, 0, 12, 64>>
              [] ~f.big /\ f.mag = I64(0) /\ f.frac = "large" -> <<154, 153, 153, 153, 153, 153, 185, 63>>
              [] ~f.big /\ f.mag = I64(2) /\ f.neg -> <<0, 0, 0, 0, 0, 0, 0, 192>>
              [] ~f.big /\ f.mag = I64_MIN -> <<0, 0, 0, 0, 0, 0, 224, 67>>)
      [] f.repr = "i64 as f64" /\ f.i = I64(5) -> <<0, 0, 0, 0, 0, 0, 20, 64>>
      [] f.repr = "i64 as f64" /\ f.i = I64(-1) -> <<0, 0, 0, 0, 0, 0, 240, 191>>
      [] f.repr = "i64 as f64" /\ f.i = I64(300) -> <<0, 0, 0, 0, 0, 192, 114, 64>>
      [] f.repr = "i64 as f64" /\ f.i = I64(1) -> <<0, 0, 0, 0, 0, 0, 240, 63>>
      [] f.repr = "i64 as f64" /\ f.i = I64(0) -> <<0, 0, 0, 0, 0, 0, 0, 0>>

f32_to_ne_bytes(f) ==
    CASE f.repr = "f64 as f32" /\ f.f.cls = "nan" -> <<0, 0, 192, 127>>
      [] f.repr = "f64 as f32" /\ f.f.cls = "inf" -> <<0, 0, 128, 127>>
      [] f.repr = "f64 as f32" /\ f.f.cls = "finite" ->
            (CASE f.f.big -> <<0, 0, 128, 95>>
              [] ~f.f.big /\ f.f.mag = I64(3) /\ f.f.frac = "large" -> <<0, 0, 96, 64>>
              [] ~f.f.big /\ f.f.mag = I64(0) /\ f.f.frac = "large" -> <<205, 204, 204, 61>>
              [] ~f.f.big /\ f.f.mag = I64(2) /\ f.f.neg -> <<0, 0, 0, 192>>
              [] ~f.f.big /\ f.f.mag = I64_MIN -> <<0, 0, 0, 95>>)
      [] f.repr = "i64 as f32" /\ f.i = I64(5) -> <<0, 0, 160, 64>>
      [] f.repr = "i64 as f32" /\ f.i = I64(-1) -> <<0, 0, 128, 191>>
      [] f.repr = "i64 as f32" /\ f.i = I64(300) -> <<0, 0, 150, 67>>
      [] f.repr = "i64 as f32" /\ f.i = I64(1) -> <<0, 0, 128, 63>>
      [] f.repr = "i64 as f32" /\ f.i = I64(0) -> <<0, 0, 0, 0>>

\* CallbackData::get_function: the script function the registry key pins
get_function(key) ==
    IF key = "pinned" THEN Ok("function")
    ELSE Err("callback function has been released")

\* the u64 and usize arguments: an integer up to i64::MAX, a float above
integer_or_number(value) ==
    IF ~is_negative(value) THEN Integer(value) ELSE Number([repr |-> "u64 as f64", u |-> value])

\* CallbackData::read_argument (raw: the 8 bytes at the argument's address)
read_argument(raw, ty) ==
    CASE ty = "Void" -> Err("void type cannot be used as a callback argument")
      [] ty = "Int8" -> Ok(Integer(sign_extend(truncate(raw, 1), 8)))
      [] ty = "UInt8" -> Ok(Integer(zero_extend(truncate(raw, 1), 8)))
      [] ty = "Int16" -> Ok(Integer(sign_extend(truncate(raw, 2), 8)))
      [] ty = "UInt16" -> Ok(Integer(zero_extend(truncate(raw, 2), 8)))
      [] ty = "Int32" -> Ok(Integer(sign_extend(truncate(raw, 4), 8)))
      [] ty = "UInt32" -> Ok(Integer(zero_extend(truncate(raw, 4), 8)))
      [] ty = "Int64" -> Ok(Integer(raw))
      [] ty = "UInt64" -> Ok(integer_or_number(raw))
      [] ty = "IntPtr" ->
            IF pointer_width = 64 THEN Ok(Integer(raw))
            ELSE Ok(Integer(sign_extend(truncate(raw, 4), 8)))
      [] ty = "UIntPtr" ->
            IF pointer_width = 64 THEN Ok(integer_or_number(raw))
            ELSE Ok(Integer(zero_extend(truncate(raw, 4), 8)))
      [] ty = "Float32" -> Ok(Number(F64_of_f32(F32_from_bits(truncate(raw, 4)))))
      [] ty = "Float64" -> Ok(Number(F64_from_bits(raw)))
      [] ty = "Pointer" ->
            IF zero_extend(truncate(raw, pointer_width \div 8), 8) = NULL THEN Ok(Nil)
            ELSE Ok(LightUserData(zero_extend(truncate(raw, pointer_width \div 8), 8)))

\* `n as u64` of a non-negative integral f64: the saturating cast
f64_as_u64(f) == IF f.big THEN U64_MAX ELSE f.mag

\* `(x as u64) as usize`, zero-extended to 8 bytes
u64_as_usize(x) == zero_extend(truncate(x, pointer_width \div 8), 8)

\* the Table arm of pointer_from_value
pointer_from_table(marker, inner) ==
    IF ~(marker.kind = "boolean" /\ marker.b)
    THEN Err("cannot convert table value to pointer")
    ELSE CASE inner.kind = "lightuserdata" -> Ok(inner.p)
           [] inner.kind = "nil" -> Ok(NULL)
           [] OTHER -> Err("cdata object missing native pointer")

\* CallbackData::pointer_from_value
pointer_from_value(value) ==
    CASE value.kind = "nil" -> Ok(NULL)
      [] value.kind = "lightuserdata" -> Ok(value.p)
      [] value.kind = "boolean" ->
            IF value.b THEN Err("cannot convert boolean 'true' to pointer") ELSE Ok(NULL)
      [] value.kind = "integer" ->
            IF is_negative(value.i) THEN Err("pointer value must be non-negative")
            ELSE Ok(u64_as_usize(value.i))
      [] value.kind = "number" ->
            IF ~is_finite(value.f) THEN Err("pointer value must be finite")
            ELSE IF is_below_zero(value.f) THEN Err("pointer value must be non-negative")
            ELSE IF value.f.frac = "large" THEN Err("pointer value must be integral")
            ELSE Ok(u64_as_usize(f64_as_u64(value.f)))
      [] value.kind = "table" ->
            pointer_from_table(raw_get(value, "__ffi_cdata"), raw_get(value, "__ptr"))
      [] OTHER -> Err("cannot convert value to pointer")

\* the float arms of write_result: the value as an f32 or an f64
result_float(value, ty, what) ==
    CASE value.kind = "number" ->
            IF ty = "Float32" THEN Ok(f32_to_ne_bytes(F32_of_f64(value.f)))
            ELSE Ok(f64_to_ne_bytes(value.f))
      [] value.kind = "integer" ->
            IF ty = "Float32" THEN Ok(f32_to_ne_bytes(F32_of_i64(value.i)))
            ELSE Ok(f64_to_ne_bytes(F64_of_i64(value.i)))
      [] value.kind = "boolean" ->
            IF ty = "Float32"
            THEN Ok(f32_to_ne_bytes(F32_of_i64(IF value.b THEN I64(1) ELSE I64(0))))
            ELSE Ok(f64_to_ne_bytes(F64_of_i64(IF value.b THEN I64(1) ELSE I64(0))))
      [] OTHER -> Err(what)

\* the arms of write_result: the bytes the arm copies to the front of the buffer
result_bytes(ty, value) ==
    CASE ty = "Void" -> Ok(<<>>)
      [] ty \in {"Int8", "Int16", "Int32", "IntPtr"} ->
            Try(lua_value_to_i64(value),
                LAMBDA x : Try(clamp_signed(x, clamped_bits(ty)),
                               LAMBDA v : Ok(truncate(v, size_of(ty)))))
      [] ty \in {"UInt8", "UInt16", "UInt32", "UIntPtr"} ->
            Try(lua_value_to_u64(value),
                LAMBDA x : Try(clamp_unsigned(x, clamped_bits(ty)),
                               LAMBDA v : Ok(truncate(v, size_of(ty)))))
      [] ty = "Int64" -> lua_value_to_i64(value)
      [] ty = "UInt64" -> lua_value_to_u64(value)
      [] ty \in {"Float32", "Float64"} ->
            result_float(value, ty,
                         IF ty = "Float32" THEN "expected numeric value for float result"
                         ELSE "expected numeric value for double result")
      [] ty = "Pointer" ->
            Try(pointer_from_value(value), LAMBDA ptr : Ok(truncate(ptr, size_of(ty))))

\* buffer.fill(0), then the arm: it writes only once its value is made
written(bytes) ==
    IF IsOk(bytes)
    THEN [res |-> Ok(bytes.v),
          buffer |-> bytes.v \o zeroed(CALLBACK_RESULT_SIZE - Len(bytes.v))]
    ELSE [res |-> bytes, buffer |-> zeroed(CALLBACK_RESULT_SIZE)]

\* CallbackData::write_result
write_result(ty, value) == written(result_bytes(ty, value))

RECURSIVE read_arguments(_, _)
\* the loop of invoke over the signature's argument types
read_arguments(raws, types) ==
    IF types = <<>> THEN Ok(<<>>)
    ELSE Try(read_argument(Head(raws), Head(types)),
             LAMBDA value : Try(read_arguments(Tail(raws), Tail(types)),
                                LAMBDA values : Ok(<<value>> \o values)))

\* callback.call(lua_args): what the script function does is the script's
script_call(script, values) ==
    IF IsOk(script) THEN Ok([args |-> values, returned |-> script.v]) ELSE script

\* invoke once the script function has returned or an earlier step has failed
invoke_after_call(called, signature, buffer) ==
    IF IsOk(called) THEN write_result(signature.result, called.v.returned)
    ELSE [res |-> called, buffer |-> buffer]

\* invoke up to callback.call: the arguments read, the function fetched
invoke_ready(signature, raws, key) ==
    Try(read_arguments(raws, signature.args),
        LAMBDA values : Try(get_function(key), LAMBDA callback : Ok(values)))

\* the outcome of invoke with the argument vectors the script function was
\* called with
with_calls(outcome, calls) ==
    [res |-> outcome.res, buffer |-> outcome.buffer, calls |-> calls]

\* invoke calling the script function a second time when it has raised
invoke_from_retrying(ready, signature, script, buffer) ==
    with_calls(invoke_after_call(Try(ready, LAMBDA values : script_call(script, values)),
                                 signature, buffer),
               IF ~IsOk(ready) THEN <<>>
               ELSE IF IsOk(script) THEN <<ready.v>> ELSE <<ready.v, ready.v>>)

\* invoke from callback.call on
invoke_from(ready, signature, script, buffer) ==
    with_calls(invoke_after_call(Try(ready, LAMBDA values : script_call(script, values)),
                                 signature, buffer),
               IF IsOk(ready) THEN <<ready.v>> ELSE <<>>)

\* CallbackData::invoke
invoke(signature, raws, key, script, buffer) ==
    invoke_from(invoke_ready(signature, raws, key), signature, script, buffer)

\* CallbackData::report_error: through the global `warn` when it is a function
\* (what the call returns is discarded), on standard error otherwise
report_error(st, warn) ==
    CASE warn = "absent" -> [st EXCEPT !.stderr = @ + 1]
      [] warn = "returns" -> [st EXCEPT !.warned = @ + 1]
      [] warn = "raises" -> [st EXCEPT !.warn_failed = @ + 1]

\* callback_trampoline after invoke: a panic leaves an extern "C" function by
\* aborting the process or by unwinding into the native caller (`how`)
trampoline_returned(st, outcome, warn, how) ==
    LET seen == [st EXCEPT !.slot = outcome.buffer, !.invocations = @ + 1,
                           !.last = Some(outcome.res), !.calls = outcome.calls]
    IN  IF IsPanic(outcome.res) THEN [seen EXCEPT !.pc = how]
        ELSE IF IsErr(outcome.res) THEN report_error([seen EXCEPT !.errors = @ + 1], warn)
        ELSE seen

\* callback_trampoline: result.fill(0), invoke, report_error
callback_trampoline(st, raws, script, warn, how) ==
    trampoline_returned(
        st,
        invoke(Unwrap(st.signature), raws, st.key, script, zeroed(CALLBACK_RESULT_SIZE)),
        warn, how)

\* what libffi hands out as the closure's code pointer
CodePtr == <<0, 16, 0, 80, 0, 0, 0, 0>>

\* CallbackHandle::new with the variadic check after the registry value
CallbackHandle_new_pins_first(signature) ==
    IF signature.variadic
    THEN [result |-> Err("TODO(@lune/ffi/callback): variadic callbacks not supported yet"),
          cif |-> Some(build_cif(signature, arg_types_of(signature))),
          key |-> "pinned", data |-> "null", closure |-> "none"]
    ELSE [result |-> Ok(LightUserData(CodePtr)),
          cif |-> Some(build_cif(signature, arg_types_of(signature))),
          key |-> "pinned", data |-> "boxed", closure |-> "alive"]

\* CallbackHandle::new: the result and the resources it has created
CallbackHandle_new(signature) ==
    IF signature.variadic
    THEN [result |-> Err("TODO(@lune/ffi/callback): variadic callbacks not supported yet"),
          cif |-> None, key |-> "none", data |-> "null", closure |-> "none"]
    ELSE [result |-> Ok(LightUserData(CodePtr)),
          cif |-> Some(build_cif(signature, arg_types_of(signature))),
          key |-> "pinned", data |-> "boxed", closure |-> "alive"]

\* the first part of drop: closure.take(), drop(closure)
take_closure(st) ==
    IF st.closure = "alive" THEN [st EXCEPT !.closure = "disposed"] ELSE st

\* the second part of drop: Box::from_raw(data), function_key.take(),
\* remove_registry_value(key), the box freed
free_data(st) ==
    IF st.data = "boxed"
    THEN IF st.key = "pinned"
         THEN [st EXCEPT !.data = "freed", !.key = "released", !.releases = @ + 1]
         ELSE [st EXCEPT !.data = "freed"]
    ELSE st

\* drop with its two parts in the other order
drop_step_data_first(st, step) ==
    IF step = 1 THEN free_data(st) ELSE take_closure(st)

\* Drop for CallbackHandle, part `step` of two
drop_step(st, step) ==
    IF step = 1 THEN take_closure(st) ELSE free_data(st)

(***************************************************************************)
(* SpecCallback: createCallback, the trampoline called from native code,   *)
(* the handle dropped                                                      *)
(***************************************************************************)
MaxInvocations == 2

CallbackResultDescs ==
    {DescString(c) : c \in {"void", "int8", "uint8", "int32", "int64", "uint64",
                            "intptr_t", "size_t", "float", "double", "pointer"}}

CallbackArgDescs ==
    {<<>>, <<DescString("int32")>>, <<DescString("void")>>,
     <<DescString("uint64"), DescString("pointer")>>}

CallbackSigTables ==
    [abi : {None},
     result : CallbackResultDescs,
     args : {Some(a) : a \in CallbackArgDescs},
     variadic : {None, Some(TRUE)},
     fixedCount : {None}]

\* the global `warn`: no function, a function that returns, a function that raises
WarnKinds == {"absent", "returns", "raises"}

\* what the script function does when called: return a value or raise
ScriptOutcomes ==
    {Err("script error")}
        \cup {Ok(v) : v \in {Nil, Boolean(TRUE), Boolean(FALSE), Integer(I64(5)), Integer(I64(-1)),
                             Integer(I64(300)), Number(Finite(FALSE, I64(3), "large")),
                             Number(NonFinite("nan")), LightUserData(A1), String("%d"),
                             CData(LightUserData(A2), Nil)}}

\* the argument storage libffi hands to the trampoline
NativeArgs == <<CallMem[A1], NULL>>

CallbackInit ==
    /\ cb_in \in {Some([sig_table |-> t, warn |-> w]) : t \in CallbackSigTables, w \in WarnKinds}
    /\ cb = CallbackIdleState

\* createCallback after from_table
callback_created(st, signature, made) ==
    [st EXCEPT !.pc = IF IsOk(made.result) THEN "live" ELSE "failed",
               !.created = Some(made.result),
               !.signature = Some(signature),
               !.cif = made.cif,
               !.key = made.key,
               !.data = made.data,
               !.closure = made.closure]

create_callback(st, signature) ==
    IF ~IsOk(signature) THEN [st EXCEPT !.pc = "failed", !.created = Some(signature)]
    ELSE callback_created(st, signature.v, CallbackHandle_new(signature.v))

\* createCallback(signature_table, func): from_table, CallbackHandle::new, the
\* handle made a userdata
CreateCallback ==
    /\ cb.pc = "none"
    /\ cb' = create_callback(cb, from_table(Unwrap(cb_in).sig_table))
    /\ UNCHANGED <<cb_in, buildVars, lateVars, nativeVars, sigVars, callVars, variadicVars, loaderVars>>

\* a trampoline that reads the script-side signature table again
Trampoline_rereading ==
    /\ cb.pc = "live"
    /\ cb.closure = "alive"
    /\ cb.invocations < MaxInvocations
    /\ \E script \in ScriptOutcomes, how \in {"aborted", "unwound"} :
         cb' = callback_trampoline(
                   IF IsOk(from_table(Unwrap(cb_in).sig_table))
                   THEN [cb EXCEPT !.signature = Some(from_table(Unwrap(cb_in).sig_table).v)]
                   ELSE cb,
                   NativeArgs, script, Unwrap(cb_in).warn, how)
    /\ UNCHANGED <<cb_in, buildVars, lateVars, nativeVars, sigVars, callVars, variadicVars, loaderVars>>

\* native code calls the closure's code pointer
Trampoline ==
    /\ cb.pc = "live"
    /\ cb.closure = "alive"
    /\ cb.invocations < MaxInvocations
    /\ \E script \in ScriptOutcomes, how \in {"aborted", "unwound"} :
         cb' = callback_trampoline(cb, NativeArgs, script, Unwrap(cb_in).warn, how)
    /\ UNCHANGED <<cb_in, buildVars, lateVars, nativeVars, sigVars, callVars, variadicVars, loaderVars>>

\* the handle is collected: drop begins and disposes of the closure
DropClosure ==
    /\ cb.pc = "live"
    /\ cb' = [drop_step(cb, 1) EXCEPT !.pc = "dropping"]
    /\ UNCHANGED <<cb_in, buildVars, lateVars, nativeVars, sigVars, callVars, variadicVars, loaderVars>>

\* drop goes on with the boxed data and the registry key
DropData ==
    /\ cb.pc = "dropping"
    /\ cb' = [drop_step(cb, 2) EXCEPT !.pc = "dropped"]
    /\ UNCHANGED <<cb_in, buildVars, lateVars, nativeVars, sigVars, callVars, variadicVars, loaderVars>>

InitCallback ==
    BuildInit /\ LateIdle /\ CallbackInit /\ SigIdle /\ CallIdle /\ VariadicIdle /\ LoaderIdle /\ NativeIdle
NextCallback == CreateCallback \/ Trampoline \/ DropClosure \/ DropData
SpecCallback == InitCallback /\ [][NextCallback]_vars

\* C6: after every invocation of the trampoline, if demarshalling, the script
\* function and result marshalling succeeded the 16-byte slot holds the bytes
\* the result marshaller writes for the returned value, every remaining byte
\* zero; if a step failed every byte of the slot is zero and nothing (no error,
\* no unwinding, no abort) but a return reaches the native caller.
C6_ResultSlot ==
    (cb.last # None) =>
        LET res == Unwrap(cb.last)
        IN  /\ Len(cb.slot) = CALLBACK_RESULT_SIZE
            /\ IsOk(res) =>
                  /\ SubSeq(cb.slot, 1, Len(res.v)) = res.v
                  /\ Len(res.v) = size_of(Unwrap(cb.signature).result)
                  /\ \A i \in (Len(res.v) + 1)..CALLBACK_RESULT_SIZE : cb.slot[i] = 0
            /\ ~IsOk(res) =>
                  /\ \A i \in 1..CALLBACK_RESULT_SIZE : cb.slot[i] = 0
                  /\ cb.pc \notin {"aborted", "unwound"}

\* C7: every error raised inside a trampoline invocation is reported exactly
\* once, through `warn` when there is one and on standard error otherwise; none
\* is dropped, also when `warn` itself fails.
C7_ReportedOnce ==
    /\ cb.warned + cb.stderr = cb.errors
    /\ cb_in # None /\ Unwrap(cb_in).warn = "absent" => cb.warned = 0
    /\ cb_in # None /\ Unwrap(cb_in).warn = "returns" => cb.stderr = 0

\* C8: the closure is disposed of strictly before the registry key is released:
\* in no state is the closure alive while the key is released; the key is
\* released at most once, and exactly once when the drop is over.
C8_ClosureBeforeKey ==
    /\ ~(cb.closure = "alive" /\ cb.key = "released")
    /\ ~(cb.closure = "alive" /\ cb.data = "freed")
    /\ cb.releases <= 1
    /\ cb.key = "released" <=> cb.releases = 1
    /\ cb.pc = "dropped" =>
          cb.closure = "disposed" /\ cb.key = "released" /\ cb.data = "freed"

\* a callback that was called was dropped: the drop is between its two parts
C8_Witness ==
    /\ cb.pc = "dropping"
    /\ cb.invocations = 1
    /\ cb.closure = "disposed"
    /\ cb.key = "pinned"

\* C9: createCallback with a variadic signature fails with the variadic-callback
\* error and has created nothing: no registry key, no boxed data, no closure.
C9_VariadicRejected ==
    (cb.created # None /\ cb.signature # None /\ Unwrap(cb.signature).variadic) =>
        /\ cb.pc = "failed"
        /\ Unwrap(cb.created) =
              Err("TODO(@lune/ffi/callback): variadic callbacks not supported yet")
        /\ cb.key = "none"
        /\ cb.data = "null"
        /\ cb.closure = "none"
        /\ cb.cif = None

\* createCallback was called with a variadic signature of two arguments
C9_Witness ==
    /\ cb.created # None
    /\ cb.signature # None
    /\ Unwrap(cb.signature).variadic
    /\ Len(Unwrap(cb.signature).args) = 2
    /\ IsErr(Unwrap(cb.created))

(***************************************************************************)
(* native.rs: dlopen, dlsym, dlclose over the loader shim                  *)
(*                                                                         *)
(* The shim keeps one pending error (thread-local, consumed on read).  A   *)
(* shim call is given by its outcome: what it returns and the message the  *)
(* dynamic linker reports for it, if any.                                  *)
(***************************************************************************)
\* luneffi_dlopen, luneffi_dlsym, luneffi_dlclose: a failing call that reports
\* a message leaves it pending; any other call leaves the pending error as it is
shim_pending(pending, failed, msg) ==
    IF failed /\ IsSome(msg) THEN msg ELSE pending

luneffi_dlopen(pending, outcome) ==
    [ptr |-> outcome.ptr, pending |-> shim_pending(pending, outcome.ptr = NULL, outcome.msg)]

luneffi_dlsym(pending, outcome) ==
    [ptr |-> outcome.ptr, pending |-> shim_pending(pending, outcome.ptr = NULL, outcome.msg)]

luneffi_dlclose(pending, outcome) ==
    [rc |-> outcome.rc, pending |-> shim_pending(pending, outcome.rc # 0, outcome.msg)]

\* luneffi_dlerror: the pending error, which the read consumes
luneffi_dlerror(pending) == [ptr |-> pending, pending |-> None]

\* CStr::to_string_lossy on the messages of the model: the one that is no UTF-8
\* has its bad byte replaced by U+FFFD
to_string_lossy(msg) ==
    CASE msg = "undefined symbol: <FF>" -> "undefined symbol: <U+FFFD>"
      [] OTHER -> msg

\* last_error reading the pending error without consuming it
last_error_peeking(pending) ==
    [err |-> IF luneffi_dlerror(pending).ptr = None THEN None
             ELSE Some(to_string_lossy(Unwrap(luneffi_dlerror(pending).ptr))),
     pending |-> pending]

\* last_error
last_error(pending) ==
    [err |-> IF luneffi_dlerror(pending).ptr = None THEN None
             ELSE Some(to_string_lossy(Unwrap(luneffi_dlerror(pending).ptr))),
     pending |-> luneffi_dlerror(pending).pending]

unwrap_or(option, default) == IF IsSome(option) THEN Unwrap(option) ELSE default

\* CString::new fails on an interior NUL byte
contains_nul(text) == \E i \in 1..Len(as_bytes(text)) : as_bytes(text)[i] = 0

\* the closures registered by native.rs return values (Ok of the sequence of
\* returned values) or raise a host-runtime error (Err), and leave the shim's
\* pending error as `pending`
dlopen_returned(opened) ==
    IF opened.ptr = NULL
    THEN [ret |-> Err(unwrap_or(last_error(opened.pending).err, "Failed to load library")),
          pending |-> last_error(opened.pending).pending]
    ELSE [ret |-> Ok(<<LightUserData(opened.ptr)>>), pending |-> opened.pending]

\* dlopen_fn
dlopen_fn(path, pending, outcome) ==
    IF IsSome(path) /\ contains_nul(Unwrap(path))
    THEN [ret |-> Err("Library path contains NUL byte"), pending |-> pending]
    ELSE dlopen_returned(luneffi_dlopen(pending, outcome))

\* dlsym_fn raising on a failed lookup, as dlopen_fn does
dlsym_raising(looked) ==
    IF looked.ptr = NULL
    THEN [ret |-> Err(unwrap_or(last_error(looked.pending).err, "symbol lookup failed")),
          pending |-> last_error(looked.pending).pending]
    ELSE [ret |-> Ok(<<LightUserData(looked.ptr)>>), pending |-> looked.pending]

\* dlsym_fn after the shim call
dlsym_returned(looked) ==
    IF looked.ptr = NULL
    THEN [ret |-> Ok(<<Nil, String(unwrap_or(last_error(looked.pending).err,
                                             "symbol lookup failed"))>>),
          pending |-> last_error(looked.pending).pending]
    ELSE [ret |-> Ok(<<LightUserData(looked.ptr)>>), pending |-> looked.pending]

\* dlsym_fn
dlsym_fn(name, pending, outcome) ==
    IF contains_nul(name)
    THEN [ret |-> Err("Symbol name contains NUL byte"), pending |-> pending]
    ELSE dlsym_returned(luneffi_dlsym(pending, outcome))

dlclose_returned(closed) ==
    IF closed.rc # 0
    THEN [ret |-> Err(unwrap_or(last_error(closed.pending).err, "dlclose failed")),
          pending |-> last_error(closed.pending).pending]
    ELSE [ret |-> Ok(<<>>), pending |-> closed.pending]

\* dlclose_fn
dlclose_fn(pending, outcome) == dlclose_returned(luneffi_dlclose(pending, outcome))

(***************************************************************************)
(* SpecLoader: a script's dlopen, dlsym and dlclose calls on one thread    *)
(***************************************************************************)
MaxOps == 3

\* a library handle and a symbol address
H1 == <<0, 0, 16, 64, 0, 0, 0, 0>>
S1 == <<64, 1, 16, 64, 0, 0, 0, 0>>

DlopenPaths == {None, Some("libm"), Some("nolib"), Some("a<NUL>b")}
DlsymNames == {"cos", "a<NUL>b"}

DlopenOutcomes ==
    {[ptr |-> H1, msg |-> None],
     [ptr |-> NULL, msg |-> Some("nolib: cannot open shared object file")],
     [ptr |-> NULL, msg |-> None]}

\* a symbol found, a symbol not found, and a symbol whose value is null (no error)
DlsymOutcomes ==
    {[ptr |-> S1, msg |-> None],
     [ptr |-> NULL, msg |-> Some("undefined symbol: cos")],
     [ptr |-> NULL, msg |-> Some("undefined symbol: <FF>")],
     [ptr |-> NULL, msg |-> None]}

DlcloseOutcomes ==
    {[rc |-> 0, msg |-> None],
     [rc |-> -1, msg |-> Some("invalid handle")],
     [rc |-> -1, msg |-> None]}

LoaderInit == dl = LoaderIdleState

\* the state after an operation: what it was, whether it got to the shim and
\* with what outcome, what it returned or raised
loader_after(st, op, shim, done) ==
    [st EXCEPT !.pending = done.pending,
               !.ops = @ + 1,
               !.prev = st.last,
               !.last = Some([op |-> op, shim |-> shim, ret |-> done.ret])]

Dlopen ==
    /\ dl.ops < MaxOps
    /\ \E path \in DlopenPaths, outcome \in DlopenOutcomes :
         dl' = loader_after(dl, "dlopen",
                            IF IsSome(path) /\ contains_nul(Unwrap(path)) THEN None
                            ELSE Some(outcome),
                            dlopen_fn(path, dl.pending, outcome))
    /\ UNCHANGED <<buildVars, lateVars, nativeVars, sigVars, callVars, variadicVars, callbackVars>>

Dlsym ==
    /\ dl.ops < MaxOps
    /\ \E name \in DlsymNames, outcome \in DlsymOutcomes :
         dl' = loader_after(dl, "dlsym",
                            IF contains_nul(name) THEN None ELSE Some(outcome),
                            dlsym_fn(name, dl.pending, outcome))
    /\ UNCHANGED <<buildVars, lateVars, nativeVars, sigVars, callVars, variadicVars, callbackVars>>

Dlclose ==
    /\ dl.ops < MaxOps
    /\ \E outcome \in DlcloseOutcomes :
         dl' = loader_after(dl, "dlclose", Some(outcome), dlclose_fn(dl.pending, outcome))
    /\ UNCHANGED <<buildVars, lateVars, nativeVars, sigVars, callVars, variadicVars, callbackVars>>

InitLoader ==
    BuildInit /\ LateIdle /\ LoaderInit /\ SigIdle /\ CallIdle /\ VariadicIdle /\ CallbackIdle /\ NativeIdle
NextLoader == Dlopen \/ Dlsym \/ Dlclose
SpecLoader == InitLoader /\ [][NextLoader]_vars

\* the message a failed shim call should surface: the linker's (as UTF-8, bad
\* bytes replaced) or the fallback
SurfacedMessage(shim, fallback) ==
    IF shim.msg = None THEN fallback
    ELSE IF Unwrap(shim.msg) = "undefined symbol: <FF>" THEN "undefined symbol: <U+FFFD>"
    ELSE Unwrap(shim.msg)

\* C10: a dlsym lookup that fails never raises: it returns exactly (nil,
\* message), the message the loader's error string or a fixed fallback when the
\* loader reports none; a lookup that succeeds returns exactly one non-null
\* light userdata; a dlopen or dlclose that fails raises a host-runtime error
\* carrying the loader's message.
C10_DlsymProbes ==
    (dl.last # None /\ Unwrap(dl.last).shim # None) =>
        LET op == Unwrap(dl.last).op
            shim == Unwrap(Unwrap(dl.last).shim)
            ret == Unwrap(dl.last).ret
        IN  /\ (op = "dlsym" /\ shim.ptr = NULL) =>
                  ret = Ok(<<Nil, String(SurfacedMessage(shim, "symbol lookup failed"))>>)
            /\ (op = "dlsym" /\ shim.ptr # NULL) =>
                  ret = Ok(<<LightUserData(shim.ptr)>>)
            /\ (op = "dlopen" /\ shim.ptr = NULL) =>
                  ret = Err(SurfacedMessage(shim, "Failed to load library"))
            /\ (op = "dlclose" /\ shim.rc # 0) =>
                  ret = Err(SurfacedMessage(shim, "dlclose failed"))

\* the second operation was a lookup that failed: it returned nil and the
\* linker's message
C10_Witness ==
    /\ dl.ops = 2
    /\ dl.last # None
    /\ Unwrap(dl.last).op = "dlsym"
    /\ Unwrap(dl.last).ret = Ok(<<Nil, String("undefined symbol: cos")>>)

\* the messages an operation can report for a failure of its own: the linker's
\* messages for that operation (decoded) and the operation's fallback
OwnMessages(op) ==
    CASE op = "dlopen" ->
           {SurfacedMessage(o, "Failed to load library") : o \in DlopenOutcomes}
      [] op = "dlsym" ->
           {SurfacedMessage(o, "symbol lookup failed") : o \in DlsymOutcomes}
      [] op = "dlclose" ->
           {SurfacedMessage(o, "dlclose failed") : o \in DlcloseOutcomes}

\* the message an operation reported, if it reported one
ReportedMessage(done) ==
    IF IsErr(done.ret) THEN Some(done.ret.msg)
    ELSE IF Len(done.ret.v) = 2 THEN Some(done.ret.v[2].text)
    ELSE None

\* C11: between the dlopen, dlsym and dlclose operations of one thread no loader
\* error is pending: a failing operation consumes the error it caused and a
\* successful one leaves none, so the message of a failing operation is the one
\* this operation produced (or its fallback), never one left by an earlier
\* operation.
C11_NoPendingError ==
    /\ dl.pending = None
    /\ (dl.last # None /\ Unwrap(dl.last).shim # None
          /\ ReportedMessage(Unwrap(dl.last)) # None) =>
           /\ Unwrap(ReportedMessage(Unwrap(dl.last))) \in OwnMessages(Unwrap(dl.last).op)
           /\ Unwrap(ReportedMessage(Unwrap(dl.last))) =
                 SurfacedMessage(Unwrap(Unwrap(dl.last).shim),
                                 CASE Unwrap(dl.last).op = "dlopen" -> "Failed to load library"
                                   [] Unwrap(dl.last).op = "dlsym" -> "symbol lookup failed"
                                   [] Unwrap(dl.last).op = "dlclose" -> "dlclose failed")

\* a dlopen failed with the linker's message, and the next operation, a lookup
\* for which the linker reports nothing, returned its own fallback
C11_Witness ==
    /\ dl.prev # None
    /\ Unwrap(dl.prev).op = "dlopen"
    /\ Unwrap(dl.prev).ret = Err("nolib: cannot open shared object file")
    /\ dl.last # None
    /\ Unwrap(dl.last).op = "dlsym"
    /\ Unwrap(dl.last).shim = Some([ptr |-> NULL, msg |-> None])
    /\ Unwrap(dl.last).ret = Ok(<<Nil, String("symbol lookup failed")>>)
    /\ dl.pending = None

(***************************************************************************)
(* native.rs: storeScalar and loadScalar                                   *)
(*                                                                         *)
(* The allocation is 8 bytes; store_scalar writes and load_scalar reads    *)
(* its first size_of(ty) bytes.                                            *)
(***************************************************************************)
\* the Table arm of lua_value_to_pointer
native_pointer_of_table(marker, inner) ==
    IF ~(marker.kind = "boolean" /\ marker.b)
    THEN Err("cannot convert table value to native pointer")
    ELSE CASE inner.kind = "lightuserdata" -> Ok(inner.p)
           [] inner.kind = "nil" -> Ok(NULL)
           [] OTHER -> Err("cdata object missing native pointer")

lua_value_to_pointer(value) ==
    CASE value.kind = "nil" -> Ok(NULL)
      [] value.kind = "lightuserdata" -> Ok(value.p)
      [] value.kind = "integer" ->
            IF is_negative(value.i) THEN Err("pointer value must be non-negative")
            ELSE Ok(u64_as_usize(value.i))
      [] value.kind = "number" ->
            IF ~is_finite(value.f) THEN Err("pointer value must be finite")
            ELSE IF is_below_zero(value.f) THEN Err("pointer value must be non-negative")
            ELSE IF value.f.frac = "large" THEN Err("pointer value must be integral")
            ELSE Ok(u64_as_usize(f64_as_u64(value.f)))
      [] value.kind = "table" ->
            native_pointer_of_table(raw_get(value, "__ffi_cdata"), raw_get(value, "__ptr"))
      [] OTHER -> Err("cannot convert value to native pointer")

\* the float arms of store_scalar: the value as an f32 or an f64
store_float(value, ty, what) ==
    CASE value.kind = "number" ->
            IF ty = "Float32" THEN Ok(f32_to_ne_bytes(F32_of_f64(value.f)))
            ELSE Ok(f64_to_ne_bytes(value.f))
      [] value.kind = "integer" ->
            IF ty = "Float32" THEN Ok(f32_to_ne_bytes(F32_of_i64(value.i)))
            ELSE Ok(f64_to_ne_bytes(F64_of_i64(value.i)))
      [] value.kind = "boolean" ->
            IF ty = "Float32"
            THEN Ok(f32_to_ne_bytes(F32_of_i64(IF value.b THEN I64(1) ELSE I64(0))))
            ELSE Ok(f64_to_ne_bytes(F64_of_i64(IF value.b THEN I64(1) ELSE I64(0))))
      [] OTHER -> Err(what)

\* the arms of store_scalar: the bytes the arm writes at the pointer
store_bytes(ty, value) ==
    CASE ty = "Void" -> Err("cannot store value for 'void' type")
      [] ty \in {"Int8", "Int16", "Int32", "IntPtr"} ->
            Try(lua_value_to_i64(value),
                LAMBDA x : Try(clamp_signed(x, clamped_bits(ty)),
                               LAMBDA v : Ok(truncate(v, size_of(ty)))))
      [] ty \in {"UInt8", "UInt16", "UInt32", "UIntPtr"} ->
            Try(lua_value_to_u64(value),
                LAMBDA x : Try(clamp_unsigned(x, clamped_bits(ty)),
                               LAMBDA v : Ok(truncate(v, size_of(ty)))))
      [] ty = "Int64" -> lua_value_to_i64(value)
      [] ty = "UInt64" -> lua_value_to_u64(value)
      [] ty \in {"Float32", "Float64"} ->
            store_float(value, ty,
                        IF ty = "Float32" THEN "expected numeric value for float storage"
                        ELSE "expected numeric value for double storage")
      [] ty = "Pointer" ->
            Try(lua_value_to_pointer(value), LAMBDA p : Ok(truncate(p, size_of(ty))))

\* ptr::write of the bytes at the front of the allocation
ptr_write(mem, bytes) == bytes \o SubSeq(mem, Len(bytes) + 1, Len(mem))

\* a store that clears the target before it coerces the value
store_scalar_clearing_first(mem, ty, value) ==
    IF IsOk(store_bytes(ty, value))
    THEN [res |-> Ok(<<>>), mem |-> ptr_write(mem, store_bytes(ty, value).v)]
    ELSE [res |-> store_bytes(ty, value), mem |-> ptr_write(mem, zeroed(size_of(ty)))]

\* store_scalar: an arm that fails (or panics) has written nothing
store_scalar(mem, ty, value) ==
    IF IsOk(store_bytes(ty, value))
    THEN [res |-> Ok(<<>>), mem |-> ptr_write(mem, store_bytes(ty, value).v)]
    ELSE [res |-> store_bytes(ty, value), mem |-> mem]

\* store_fn (storeScalar)
store_fn(mem, code, value) ==
    IF IsOk(from_code(normalize_code(code)))
    THEN store_scalar(mem, from_code(normalize_code(code)).v, value)
    ELSE [res |-> from_code(normalize_code(code)), mem |-> mem]

\* load_scalar
load_scalar(mem, ty) ==
    CASE ty = "Void" -> Err("cannot read value of 'void' type")
      [] ty = "Int8" -> Ok(Integer(sign_extend(truncate(mem, 1), 8)))
      [] ty = "UInt8" -> Ok(Integer(zero_extend(truncate(mem, 1), 8)))
      [] ty = "Int16" -> Ok(Integer(sign_extend(truncate(mem, 2), 8)))
      [] ty = "UInt16" -> Ok(Integer(zero_extend(truncate(mem, 2), 8)))
      [] ty = "Int32" -> Ok(Integer(sign_extend(truncate(mem, 4), 8)))
      [] ty = "UInt32" -> Ok(Integer(zero_extend(truncate(mem, 4), 8)))
      [] ty = "Int64" -> Ok(Integer(truncate(mem, 8)))
      [] ty = "UInt64" ->
            IF ~is_negative(truncate(mem, 8)) THEN Ok(Integer(truncate(mem, 8)))
            ELSE Ok(Number([repr |-> "u64 as f64", u |-> truncate(mem, 8)]))
      [] ty = "IntPtr" ->
            IF pointer_width = 64 THEN Ok(Integer(truncate(mem, 8)))
            ELSE Ok(Integer(sign_extend(truncate(mem, 4), 8)))
      [] ty = "UIntPtr" ->
            IF pointer_width = 64
            THEN (IF ~is_negative(truncate(mem, 8)) THEN Ok(Integer(truncate(mem, 8)))
                  ELSE Ok(Number([repr |-> "u64 as f64", u |-> truncate(mem, 8)])))
            ELSE Ok(Integer(zero_extend(truncate(mem, 4), 8)))
      [] ty = "Float32" -> Ok(Number(F64_of_f32(F32_from_bits(truncate(mem, 4)))))
      [] ty = "Float64" -> Ok(Number(F64_from_bits(truncate(mem, 8))))
      [] ty = "Pointer" ->
            Ok(LightUserData(zero_extend(truncate(mem, pointer_width \div 8), 8)))

\* load_fn (loadScalar)
load_fn(mem, code) == Try(from_code(normalize_code(code)), LAMBDA ty : load_scalar(mem, ty))

(***************************************************************************)
(* SpecScalar: storeScalar or a native write to an allocation, then        *)
(* loadScalar with the same type code                                      *)
(***************************************************************************)
ScalarIntCodes ==
    {"int8", "uint8", "int16", "uint16", "int32", " Int32 ", "uint32", "int64", "uint64",
     "intptr_t", "uintptr_t", "long"}
ScalarFloatCodes == {"float", "double"}
ScalarOtherCodes == {"pointer", "void", "int128"}

ScalarIntegers ==
    {Integer(I64(0)), Integer(I64(1)), Integer(I64(-1)), Integer(I64(5)), Integer(I64(300)),
     Integer(I64(127)), Integer(I64(128)), Integer(I64(-128)), Integer(I64(-129)),
     Integer(I64(255)), Integer(I64(256)), Integer(I64(32767)), Integer(I64(32768)),
     Integer(I64(-32768)), Integer(I64(65535)), Integer(I64(65536)),
     Integer(I64_I32_MAX), Integer(I64_2P31), Integer(I64_I32_MIN), Integer(I64_BELOW_I32),
     Integer(I64_U32_MAX), Integer(I64_2P32), Integer(I64_MAX), Integer(I64_MIN)}

\* 3.5, 0.1, -2, 2^63, 2^64, NaN and +inf
ScalarNumbers ==
    {Number(Finite(FALSE, I64(3), "large")), Number(Finite(FALSE, I64(0), "large")),
     Number(Finite(TRUE, I64(2), "zero")), Number(Finite(FALSE, I64_MIN, "zero")),
     Number(Huge(FALSE)), Number(NonFinite("nan")), Number(NonFinite("inf"))}

ScalarOthers ==
    {Nil, Boolean(TRUE), String("%d"), LightUserData(NULL), LightUserData(A1),
     LightUserData(A3), CData(LightUserData(A1), Nil), CData(Nil, Nil),
     Table([__ptr |-> LightUserData(A1)])}

\* the integers whose conversion to f32 and f64 the model tabulates
ScalarFloatIntegers ==
    {Integer(I64(0)), Integer(I64(1)), Integer(I64(-1)), Integer(I64(5)), Integer(I64(300))}

ScalarInputs ==
    {[code |-> c, value |-> v] :
        c \in ScalarIntCodes \cup ScalarOtherCodes,
        v \in ScalarIntegers \cup ScalarNumbers \cup ScalarOthers}
    \cup {[code |-> c, value |-> v] :
            c \in ScalarFloatCodes,
            v \in ScalarFloatIntegers \cup ScalarNumbers \cup ScalarOthers}

\* what alloc (calloc) returns, and an allocation written before
ScalarAllocations == {zeroed(8), <<170, 170, 170, 170, 170, 170, 170, 170>>}

\* the bit patterns native code may leave in the allocation
ScalarPatterns ==
    {U64_MAX, I64_MIN, I64(0), A1, I64(-2), <<0, 0, 96, 64, 0, 0, 12, 64>>,
     <<0, 0, 0, 0, 0, 0, 12, 64>>, <<255, 127, 0, 128, 1, 0, 0, 128>>}

ScalarInit ==
    /\ sc_in \in {Some(i) : i \in ScalarInputs}
    /\ sc \in {Some([pc |-> "allocated", mem |-> m, via |-> "none",
                     stored |-> None, loaded |-> None]) : m \in ScalarAllocations}

\* storeScalar(p, code, value)
StoreScalar ==
    /\ Unwrap(sc).pc = "allocated"
    /\ sc' = Some([Unwrap(sc) EXCEPT
                      !.pc = "stored",
                      !.mem = store_fn(Unwrap(sc).mem, Unwrap(sc_in).code,
                                       Unwrap(sc_in).value).mem,
                      !.stored = Some(store_fn(Unwrap(sc).mem, Unwrap(sc_in).code,
                                               Unwrap(sc_in).value).res)])
    /\ UNCHANGED <<sc_in, buildVars, lateVars, sigVars, callVars, variadicVars, callbackVars,
                   loaderVars, bytesVars, coerceVars, errnoVars>>

\* native code writes the allocation
NativeWrite ==
    /\ Unwrap(sc).pc = "allocated"
    /\ \E pattern \in ScalarPatterns :
         sc' = Some([Unwrap(sc) EXCEPT !.pc = "written", !.mem = pattern])
    /\ UNCHANGED <<sc_in, buildVars, lateVars, sigVars, callVars, variadicVars, callbackVars,
                   loaderVars, bytesVars, coerceVars, errnoVars>>

\* loadScalar(p, code)
LoadScalar ==
    /\ Unwrap(sc).pc \in {"stored", "written"}
    /\ sc' = Some([Unwrap(sc) EXCEPT
                      !.pc = "loaded",
                      !.via = Unwrap(sc).pc,
                      !.loaded = Some(load_fn(Unwrap(sc).mem, Unwrap(sc_in).code))])
    /\ UNCHANGED <<sc_in, buildVars, lateVars, sigVars, callVars, variadicVars, callbackVars,
                   loaderVars, bytesVars, coerceVars, errnoVars>>

InitScalar ==
    /\ BuildInit /\ LateIdle /\ ScalarInit
    /\ SigIdle /\ CallIdle /\ VariadicIdle /\ CallbackIdle /\ LoaderIdle
    /\ BytesIdle /\ CoerceIdle /\ ErrnoIdle
NextScalar == StoreScalar \/ NativeWrite \/ LoadScalar
SpecScalar == InitScalar /\ [][NextScalar]_vars

\* the type code a storeScalar / loadScalar spelling names
ScalarType(code) == from_code(normalize_code(code))

\* -2^(bits-1) <= i <= 2^(bits-1) - 1 and 0 <= i <= 2^bits - 1, for an i64 i
InSignedRange(i, bits) ==
    /\ ~lt_signed(i, word_neg(shl_one(bits - 1, 8)))
    /\ ~lt_signed(word_dec(shl_one(bits - 1, 8)), i)
InUnsignedRange(i, bits) ==
    /\ ~is_negative(i)
    /\ bits < 64 => ~lt_unsigned(word_dec(shl_one(bits, 8)), i)

\* the width in bits of an integer type code
IntegerBits(ty) ==
    IF ty \in {"IntPtr", "UIntPtr"} THEN pointer_width ELSE 8 * size_of(ty)

\* the value range of a type code: the script integers within the width, for
\* the 64-bit unsigned types also the floats that are integers from 2^63 to
\* below 2^64 (here 2^63); the floats the type represents exactly (0.1 is no
\* f32); the light userdata, null included
InValueRange(ty, v) ==
    CASE ty \in {"Int8", "Int16", "Int32", "Int64", "IntPtr"} ->
            v.kind = "integer" /\ InSignedRange(v.i, IntegerBits(ty))
      [] ty \in {"UInt8", "UInt16", "UInt32", "UInt64", "UIntPtr"} ->
            \/ v.kind = "integer" /\ InUnsignedRange(v.i, IntegerBits(ty))
            \/ /\ IntegerBits(ty) = 64
               /\ v = Number(Finite(FALSE, I64_MIN, "zero"))
      [] ty = "Float64" -> v.kind = "number"
      [] ty = "Float32" -> v.kind = "number" /\ v # Number(Finite(FALSE, I64(0), "large"))
      [] ty = "Pointer" ->
            v.kind = "lightuserdata" /\ InUnsignedRange(v.p, pointer_width)
      [] OTHER -> FALSE

\* `as f64` of the f32 values the model's floats store as
WidenedBits(bits) ==
    CASE bits = <<0, 0, 96, 64>> -> <<0, 0, 0, 0, 0, 0, 12, 64>>
      [] bits = <<205, 204, 204, 61>> -> <<0, 0, 0, 160, 153, 153, 185, 63>>
      [] bits = <<0, 0, 0, 192>> -> <<0, 0, 0, 0, 0, 0, 0, 192>>
      [] bits = <<0, 0, 0, 95>> -> <<0, 0, 0, 0, 0, 0, 224, 67>>
      [] bits = <<0, 0, 128, 95>> -> <<0, 0, 0, 0, 0, 0, 240, 67>>
      [] bits = <<0, 0, 192, 127>> -> <<0, 0, 0, 0, 0, 0, 248, 127>>
      [] bits = <<0, 0, 128, 127>> -> <<0, 0, 0, 0, 0, 0, 240, 127>>

\* the f64 bits of a float that loadScalar made
LoadedBits(f) ==
    CASE f.repr = "f64 bits" -> f.bits
      [] f.repr = "f32 as f64" -> WidenedBits(f.x.bits)

\* the loaded script value is the stored one: the same integer, the same
\* address, the same float
SameValue(v, loaded) ==
    IF v.kind = "number"
    THEN /\ loaded.kind = "number"
         /\ loaded.f.repr \in {"f64 bits", "f32 as f64"}
         /\ LoadedBits(loaded.f) = f64_to_ne_bytes(v.f)
    ELSE loaded = v

\* a store of a value of the type's range, then a load with the same code
StoredInRange ==
    /\ Unwrap(sc).pc = "loaded"
    /\ Unwrap(sc).via = "stored"
    /\ IsOk(ScalarType(Unwrap(sc_in).code))
    /\ InValueRange(ScalarType(Unwrap(sc_in).code).v, Unwrap(sc_in).value)

\* C12: for every type code but void and every script value in the type's
\* value range, storeScalar(p, code, v) then loadScalar(p, code) returns v.
C12_RoundTrip ==
    StoredInRange =>
        /\ Unwrap(sc).stored = Some(Ok(<<>>))
        /\ IsOk(Unwrap(Unwrap(sc).loaded))
        /\ SameValue(Unwrap(sc_in).value, Unwrap(Unwrap(sc).loaded).v)

(***************************************************************************)
(* native.rs: writeBytes and readString                                    *)
(*                                                                         *)
(* The destination is a buffer of mapped bytes; what lies behind its last  *)
(* byte is not the program's to read.                                      *)
(***************************************************************************)
\* a script string given by its bytes
LuaString(bytes) == [kind |-> "string", bytes |-> bytes]

\* write_bytes_fn that never writes the terminator
write_bytes_unterminated(dest, mem, data, append_null) ==
    IF dest = NULL
    THEN [res |-> Err("attempt to write to null pointer"), mem |-> mem]
    ELSE [res |-> Ok(<<>>), mem |-> ptr_write(mem, data)]

\* write_bytes_fn (writeBytes): memcpy of the bytes, then the 0 byte after them
\* when append_null is given and true
write_bytes_fn(dest, mem, data, append_null) ==
    IF dest = NULL
    THEN [res |-> Err("attempt to write to null pointer"), mem |-> mem]
    ELSE [res |-> Ok(<<>>),
          mem |-> ptr_write(mem, IF unwrap_or(append_null, FALSE) THEN data \o <<0>>
                                 ELSE data)]

\* the index of the first 0 byte of the buffer, 0 when it has none
first_nul(mem) ==
    IF \E i \in 1..Len(mem) : mem[i] = 0
    THEN CHOOSE i \in 1..Len(mem) : mem[i] = 0 /\ \A j \in 1..(i - 1) : mem[j] # 0
    ELSE 0

\* what a read behind the buffer's last byte may do: fault, or find these bytes
BeyondBuffer == {<<>>, <<170>>}

\* CStr::from_ptr(ptr).to_bytes(): the bytes before the first 0 byte; with no 0
\* byte in the buffer the scan runs on behind it
cstr_bytes(mem) ==
    IF first_nul(mem) # 0 THEN {Ok(SubSeq(mem, 1, first_nul(mem) - 1))}
    ELSE {Fault("read behind the buffer")} \cup {Ok(mem \o more) : more \in BeyondBuffer}

\* slice::from_raw_parts(ptr, count): count bytes, from behind the buffer when
\* it is shorter (count: an i64 word below 2^24, or larger)
raw_parts(mem, count) ==
    IF truncate(count, 3) \o <<0, 0, 0, 0, 0>> = count
       /\ unsigned_value(truncate(count, 3)) <= Len(mem)
    THEN {Ok(SubSeq(mem, 1, unsigned_value(truncate(count, 3))))}
    ELSE {Fault("read behind the buffer")}

\* read_string_fn (readString): the set of its possible outcomes
read_string_fn(ptr, mem, len) ==
    IF ptr = NULL THEN {Err("attempt to read string from null pointer")}
    ELSE IF len = None
    THEN {IF IsOk(r) THEN Ok(LuaString(r.v)) ELSE r : r \in cstr_bytes(mem)}
    ELSE IF lt_unsigned(USIZE_MAX, Unwrap(len))
    THEN {Err("string length does not fit usize")}
    ELSE {IF IsOk(r) THEN Ok(LuaString(r.v)) ELSE r : r \in raw_parts(mem, Unwrap(len))}

(***************************************************************************)
(* SpecBytes: writeBytes to a buffer, then readString from it              *)
(***************************************************************************)
MaxLen == 2

\* the bytes of the strings: NUL, 'a' and 0xFF
ByteAlphabet == {0, 97, 255}

ByteStrings == SeqsUpTo(ByteAlphabet, MaxLen)

\* a buffer of `size` bytes: fresh from alloc (zeroed) or used before
Buffers(size) == {[i \in 1..size |-> 0], [i \in 1..size |-> 170]}

ReadLengths ==
    {None, Some(I64_2P32)} \cup {Some(I64(n)) : n \in 0..(MaxLen + 2)}

BytesInit ==
    buf \in {Some([pc |-> "allocated", dest |-> d, mem |-> m, data |-> b,
                   append_null |-> None, len |-> None, wrote |-> None, read |-> None]) :
                d \in {A1, NULL}, b \in ByteStrings, m \in Buffers(MaxLen + 1)}

\* writeBytes(dest, data, append_null)
WriteBytes ==
    /\ Unwrap(buf).pc = "allocated"
    /\ \E append_null \in {None, Some(TRUE), Some(FALSE)} :
         buf' = Some([Unwrap(buf) EXCEPT
                         !.pc = "written",
                         !.append_null = append_null,
                         !.mem = write_bytes_fn(Unwrap(buf).dest, Unwrap(buf).mem,
                                                Unwrap(buf).data, append_null).mem,
                         !.wrote = Some(write_bytes_fn(Unwrap(buf).dest, Unwrap(buf).mem,
                                                        Unwrap(buf).data, append_null).res)])
    /\ UNCHANGED <<buildVars, lateVars, sigVars, callVars, variadicVars, callbackVars, loaderVars,
                   scalarVars, coerceVars, errnoVars>>

\* readString(dest, len)
ReadString ==
    /\ Unwrap(buf).pc \in {"allocated", "written"}
    /\ \E len \in ReadLengths :
       \E r \in read_string_fn(Unwrap(buf).dest, Unwrap(buf).mem, len) :
         buf' = Some([Unwrap(buf) EXCEPT !.pc = "read", !.len = len, !.read = Some(r)])
    /\ UNCHANGED <<buildVars, lateVars, sigVars, callVars, variadicVars, callbackVars, loaderVars,
                   scalarVars, coerceVars, errnoVars>>

InitBytes ==
    /\ BuildInit /\ LateIdle /\ BytesInit
    /\ SigIdle /\ CallIdle /\ VariadicIdle /\ CallbackIdle /\ LoaderIdle
    /\ ScalarIdle /\ CoerceIdle /\ ErrnoIdle
NextBytes == WriteBytes \/ ReadString
SpecBytes == InitBytes /\ [][NextBytes]_vars

\* the bytes of b before its first NUL byte (all of b when it has none)
UpToNul(b) == IF first_nul(b) = 0 THEN b ELSE SubSeq(b, 1, first_nul(b) - 1)

\* writeBytes(dest, b, true) succeeded and readString(dest) with no length
\* has returned
WrittenThenRead ==
    /\ Unwrap(buf).pc = "read"
    /\ Unwrap(buf).wrote = Some(Ok(<<>>))
    /\ Unwrap(buf).append_null = Some(TRUE)
    /\ Unwrap(buf).len = None

\* C13: for every byte string b and every destination of at least len(b)+1
\* bytes, writeBytes(dest, b, true) then readString(dest) with no length
\* returns the bytes of b before its first NUL byte: exactly b when b has no
\* NUL byte.
C13_RoundTrip ==
    WrittenThenRead =>
        Unwrap(buf).read = Some(Ok(LuaString(UpToNul(Unwrap(buf).data))))

\* 'a', 0xFF written over a used buffer and read back
C13_Witness ==
    /\ WrittenThenRead
    /\ Unwrap(buf).data = <<97, 255>>
    /\ Unwrap(buf).mem = <<97, 255, 0>>
    /\ Unwrap(buf).read = Some(Ok(LuaString(<<97, 255>>)))

\* C13 as stated: the round trip returns exactly b for every byte string b
C13_AsStated ==
    WrittenThenRead => Unwrap(buf).read = Some(Ok(LuaString(Unwrap(buf).data)))

(***************************************************************************)
(* SpecCoerce: the coercions of one script value: as a typed call argument *)
(* (convert_typed_argument), as a dynamic integer (lua_value_to_i64,       *)
(* lua_value_to_u64), as a pointer to store (lua_value_to_pointer) and as  *)
(* a callback's pointer result (pointer_from_value)                        *)
(***************************************************************************)
CoerceIntegers == ScalarIntegers

\* 3.5, 0.1, 7, 2^32, -2, -0.0, 2^63, 2^64 and above, below -2^64, 1 + 2^-52,
\* 1e-17, -1e-17, NaN, +inf, -inf
CoerceNumbers ==
    {Number(Finite(FALSE, I64(3), "large")), Number(Finite(FALSE, I64(0), "large")),
     Number(Finite(FALSE, I64(7), "zero")), Number(Finite(FALSE, I64_2P32, "zero")),
     Number(Finite(TRUE, I64(2), "zero")), Number(Finite(TRUE, I64(0), "zero")),
     Number(Finite(FALSE, I64_MIN, "zero")), Number(Huge(FALSE)), Number(Huge(TRUE)),
     Number(Finite(FALSE, I64(1), "tiny")), Number(Finite(FALSE, I64(0), "tiny")),
     Number(Finite(TRUE, I64(0), "tiny")),
     Number(NonFinite("nan")), Number(NonFinite("inf")), Number(NonFinite("-inf"))}

\* the `__ffi_cdata`, `__ptr` and `__ctype` fields of the tables (Nil: absent)
CoerceMarkers == {Nil, Boolean(TRUE), Boolean(FALSE), Integer(I64(1)), String("int64")}
CoercePtrFields == {Nil, LightUserData(A1), LightUserData(NULL), Integer(I64(5))}
CoerceCTypes ==
    {Nil, String("int64"), String("%d"), Integer(I64(5)),
     Table([code |-> String("int64")]), Table([code |-> Integer(I64(5))])}

CoerceTables ==
    {Table([__ffi_cdata |-> m, __ptr |-> q, __ctype |-> c]) :
        m \in CoerceMarkers, q \in CoercePtrFields, c \in CoerceCTypes}

CoerceOthers ==
    {Nil, Boolean(TRUE), Boolean(FALSE), String("%d"), String("a<NUL>b"),
     LightUserData(NULL), LightUserData(A1), Function("f")}

CoerceValues == CoerceIntegers \cup CoerceNumbers \cup CoerceOthers \cup CoerceTables

\* the tables are coerced to pointers only
CoerceInputs ==
    {[value |-> v, ty |-> t] :
        v \in CoerceIntegers \cup CoerceNumbers \cup CoerceOthers, t \in TypeCode}
    \cup {[value |-> v, ty |-> "Pointer"] : v \in CoerceTables}

CoerceNone ==
    [typed |-> None, signed |-> None, unsigned |-> None, stored |-> None, result |-> None]

CoerceInit ==
    /\ co_in \in {Some(i) : i \in CoerceInputs}
    /\ co_out = Some(CoerceNone)

\* convert_typed_argument(value, ty, string_refs)
TypedArgument ==
    /\ Unwrap(co_out).typed = None
    /\ co_out' = Some([Unwrap(co_out) EXCEPT
                          !.typed = Some(convert_typed_argument(Unwrap(co_in).value,
                                                                Unwrap(co_in).ty, <<>>))])
    /\ UNCHANGED <<co_in, buildVars, lateVars, sigVars, callVars, variadicVars, callbackVars,
                   loaderVars, scalarVars, bytesVars, errnoVars>>

\* lua_value_to_i64(value)
DynamicSigned ==
    /\ Unwrap(co_out).signed = None
    /\ co_out' = Some([Unwrap(co_out) EXCEPT
                          !.signed = Some(lua_value_to_i64(Unwrap(co_in).value))])
    /\ UNCHANGED <<co_in, buildVars, lateVars, sigVars, callVars, variadicVars, callbackVars,
                   loaderVars, scalarVars, bytesVars, errnoVars>>

\* lua_value_to_u64(value)
DynamicUnsigned ==
    /\ Unwrap(co_out).unsigned = None
    /\ co_out' = Some([Unwrap(co_out) EXCEPT
                          !.unsigned = Some(lua_value_to_u64(Unwrap(co_in).value))])
    /\ UNCHANGED <<co_in, buildVars, lateVars, sigVars, callVars, variadicVars, callbackVars,
                   loaderVars, scalarVars, bytesVars, errnoVars>>

\* lua_value_to_pointer(value), the pointer arm of store_scalar
StoredPointer ==
    /\ Unwrap(co_out).stored = None
    /\ Unwrap(co_in).ty = "Pointer"
    /\ co_out' = Some([Unwrap(co_out) EXCEPT
                          !.stored = Some(lua_value_to_pointer(Unwrap(co_in).value))])
    /\ UNCHANGED <<co_in, buildVars, lateVars, sigVars, callVars, variadicVars, callbackVars,
                   loaderVars, scalarVars, bytesVars, errnoVars>>

\* pointer_from_value(value), the pointer arm of write_result
ResultPointer ==
    /\ Unwrap(co_out).result = None
    /\ Unwrap(co_in).ty = "Pointer"
    /\ co_out' = Some([Unwrap(co_out) EXCEPT
                          !.result = Some(pointer_from_value(Unwrap(co_in).value))])
    /\ UNCHANGED <<co_in, buildVars, lateVars, sigVars, callVars, variadicVars, callbackVars,
                   loaderVars, scalarVars, bytesVars, errnoVars>>

InitCoerce ==
    /\ BuildInit /\ LateIdle /\ CoerceInit
    /\ SigIdle /\ CallIdle /\ VariadicIdle /\ CallbackIdle /\ LoaderIdle
    /\ ScalarIdle /\ BytesIdle /\ ErrnoIdle
NextCoerce ==
    TypedArgument \/ DynamicSigned \/ DynamicUnsigned \/ StoredPointer \/ ResultPointer
SpecCoerce == InitCoerce /\ [][NextCoerce]_vars

\* the integer a script value is: a script integer, or a float that is an
\* integer of the i64 range (-0.0 is 0); None of the other values
IntegerOf(value) ==
    CASE value.kind = "integer" -> Some(value.i)
      [] value.kind = "number" /\ is_finite(value.f) /\ value.f.frac = "zero"
           /\ ~value.f.big /\ ~is_negative(value.f.mag) ->
            Some(IF value.f.neg THEN word_neg(value.f.mag) ELSE value.f.mag)
      [] OTHER -> None

\* a float that is an integer outside the i64 range
IsIntegerBeyondI64(value) ==
    /\ value.kind = "number" /\ is_finite(value.f) /\ value.f.frac = "zero"
    /\ value.f.big \/ is_negative(value.f.mag)

\* the integer the converted argument holds
ArgIntegerOf(arg) ==
    IF arg.tag \in {"Int8", "Int16", "Int32", "Int64"} THEN sign_extend(arg.bytes, 8)
    ELSE zero_extend(arg.bytes, 8)

IsRangeError(r) ==
    IsErr(r) /\ r.msg \in {"signed argument out of range", "unsigned argument out of range"}

\* C14: typed coercion of an integer v to a signed type of w in {8, 16, 32} bits
\* succeeds and yields v when -2^(w-1) <= v <= 2^(w-1)-1 and fails with a range
\* error for every other v; to an unsigned type of w bits it succeeds, and
\* yields v, exactly when 0 <= v <= 2^w-1.  No out-of-range value is wrapped or
\* truncated.
C14_NarrowRange ==
    (Unwrap(co_out).typed # None
       /\ Unwrap(co_in).ty \in {"Int8", "Int16", "Int32", "UInt8", "UInt16", "UInt32"}
       /\ (IntegerOf(Unwrap(co_in).value) # None \/ IsIntegerBeyondI64(Unwrap(co_in).value))) =>
        LET ty == Unwrap(co_in).ty
            v == IntegerOf(Unwrap(co_in).value)
            r == Unwrap(Unwrap(co_out).typed)
            fits == /\ v # None
                    /\ IF ty \in {"Int8", "Int16", "Int32"}
                       THEN InSignedRange(Unwrap(v), 8 * size_of(ty))
                       ELSE InUnsignedRange(Unwrap(v), 8 * size_of(ty))
        IN  /\ fits => /\ IsOk(r)
                       /\ r.v.arg.tag = ty
                       /\ Len(r.v.arg.bytes) = size_of(ty)
                       /\ ArgIntegerOf(r.v.arg) = Unwrap(v)
            /\ ~fits => IsErr(r)
            /\ (~fits /\ ty \in {"Int8", "Int16", "Int32"}) => IsRangeError(r)

\* 128 is refused as an int8 argument
C14_Witness ==
    /\ Unwrap(co_in) = [value |-> Integer(I64(128)), ty |-> "Int8"]
    /\ Unwrap(co_out).typed = Some(Err("signed argument out of range"))

\* the pointer coercions that have been applied to the value: in call's typed
\* marshalling, in storeScalar, in callback result marshalling
PointerCoercions ==
    {r \in {Unwrap(co_out).typed, Unwrap(co_out).stored, Unwrap(co_out).result} : r # None}

\* C15: coercion of a finite float f to a pointer succeeds if and only if
\* f >= 0 and f = trunc(f), in call's typed marshalling, in storeScalar and in
\* callback result marshalling alike; a non-finite float always fails.
C15_PointerFromFloat ==
    (Unwrap(co_in).ty = "Pointer" /\ Unwrap(co_in).value.kind = "number") =>
        \A r \in PointerCoercions :
            IsOk(Unwrap(r)) <=>
                /\ is_finite(Unwrap(co_in).value.f)
                /\ ~is_below_zero(Unwrap(co_in).value.f)
                /\ Unwrap(co_in).value.f.frac = "zero"

\* what the dynamic coercion of a value to i64 must be: Ok of an integer, or a
\* failure (None)
DynamicExpected(value) ==
    CASE value.kind = "integer" -> Some(value.i)
      [] value.kind = "boolean" -> Some(IF value.b THEN I64(1) ELSE I64(0))
      [] value.kind = "number" -> IntegerOf(value)
      [] OTHER -> None

\* r is the signed (unsigned) coercion the claim allows for the value: one that
\* succeeds returns the integer the value is, and a value of a kind that always
\* coerces has succeeded
DynamicAsClaimed(value, r, unsigned) ==
    /\ IsOk(r) => /\ DynamicExpected(value) = Some(r.v)
                  /\ unsigned => ~is_negative(r.v)
    /\ (value.kind \in {"integer", "boolean"} /\ ~IsOk(r)) =>
           unsigned /\ is_negative(Unwrap(DynamicExpected(value)))
    /\ ~IsPanic(r)

\* C16: dynamic coercion of a float n to an integer succeeds only if n is finite
\* and equal to its truncation, and then returns the integer numerically equal
\* to n (a float beyond the i64 range never gives a different integer);
\* integers coerce to themselves, booleans to 1 and 0, every other kind fails;
\* unsigned coercion also fails for every negative result.
C16_DynamicInteger ==
    /\ Unwrap(co_out).signed # None =>
          DynamicAsClaimed(Unwrap(co_in).value, Unwrap(Unwrap(co_out).signed), FALSE)
    /\ Unwrap(co_out).unsigned # None =>
          DynamicAsClaimed(Unwrap(co_in).value, Unwrap(Unwrap(co_out).unsigned), TRUE)

(***************************************************************************)
(* SpecReturn: call of a native function of no arguments, for every result *)
(* type and for return registers of every shape                            *)
(***************************************************************************)
ReturnResultDescs ==
    {DescString("void"), DescString("int8"), DescString("uint8"), DescString("int16"),
     DescString("uint16"), DescString("int32"), DescString("uint32"), DescString("int64"),
     DescString("uint64"), DescString("intptr_t"), DescString("uintptr_t"),
     DescString("size_t"), DescString("float"), DescString("double"),
     DescString("pointer"), DescTable(Some("uint8")), DescString("unsigned long")}

ReturnSigTables ==
    [abi : {None},
     result : ReturnResultDescs,
     args : {None, Some(<<>>)},
     variadic : {None},
     fixedCount : {None}]

\* return registers: 0, 2^63-1, 2^63, 2^64-1, an address, -2, and two whose
\* narrow parts differ in sign from the whole
ReturnRegisters ==
    {I64(0), I64_MAX, I64_MIN, U64_MAX, A1, I64(-2),
     <<128, 127, 0, 128, 1, 0, 0, 0>>, <<255, 255, 255, 127, 0, 0, 0, 128>>}

ReturnInit ==
    /\ call_in \in {Some([sig_table |-> s, args_table |-> [n |-> None, items |-> <<>>],
                          func |-> ReturnRegisters]) : s \in ReturnSigTables}
    /\ call_st = CallIdleState

InitReturn ==
    /\ BuildInit /\ LateIdle /\ ReturnInit
    /\ SigIdle /\ VariadicIdle /\ CallbackIdle /\ LoaderIdle /\ NativeIdle
SpecReturn == InitReturn /\ [][NextCall]_vars

\* the native function has returned `raw` to a call with result type `code`
Returned(code, raw) ==
    /\ call_st.pc = "returned"
    /\ call_st.raw = Some(raw)
    /\ call_st.signature # None
    /\ Unwrap(call_st.signature).result = code

\* the script integer with the numeric value of the low `bits` bits of the
\* register, read as signed or as unsigned
IsIntegerOfValue(value, raw, bits, signed) ==
    /\ value.kind = "integer"
    /\ truncate(value.i, bits \div 8) = truncate(raw, bits \div 8)
    /\ IF signed THEN InSignedRange(value.i, bits) ELSE InUnsignedRange(value.i, bits)

\* the float made of an unsigned 64-bit value
IsFloatOfU64(value, raw) ==
    value.kind = "number" /\ value.f = [repr |-> "u64 as f64", u |-> raw]

\* the script value the claim gives for a result code and a return register
\* (TRUE for the codes it leaves open)
ResultAsClaimed(code, raw, value) ==
    CASE code = "Void" -> value = Nil
      [] code \in {"Int8", "Int16", "Int32"} ->
            IsIntegerOfValue(value, raw, 8 * size_of(code), TRUE)
      [] code \in {"UInt8", "UInt16", "UInt32"} ->
            IsIntegerOfValue(value, raw, 8 * size_of(code), FALSE)
      [] code = "IntPtr" /\ pointer_width = 32 -> IsIntegerOfValue(value, raw, 32, TRUE)
      [] code = "UIntPtr" /\ pointer_width = 32 -> IsIntegerOfValue(value, raw, 32, FALSE)
      [] code = "UInt64" \/ (code = "UIntPtr" /\ pointer_width = 64) ->
            IF ~lt_unsigned(I64_MAX, raw) THEN value = Integer(raw)
            ELSE IsFloatOfU64(value, raw)
      [] code = "Pointer" ->
            IF truncate(raw, pointer_width \div 8) = truncate(NULL, pointer_width \div 8)
            THEN value = Nil
            ELSE /\ value.kind = "lightuserdata"
                 /\ value.p = zero_extend(truncate(raw, pointer_width \div 8), 8)
      [] OTHER -> TRUE

\* C17: the script value call returns is determined by the result code and the
\* native return value: void gives nil; an integer type narrower than 64 bits
\* the script integer of the same value, sign- or zero-extended; a 64-bit
\* unsigned or uintptr value an integer up to 2^63-1 and a float above; a null
\* pointer nil and another pointer the light userdata of that address.
C17_ResultValue ==
    \A code \in TypeCode, raw \in ReturnRegisters :
        Returned(code, raw) =>
            /\ IsOk(Unwrap(call_st.result))
            /\ ResultAsClaimed(code, raw, Unwrap(call_st.result).v)

\* a function of result type uint64 returned 2^64-1 and call returned a float
C17_Witness ==
    /\ Returned("UInt64", U64_MAX)
    /\ Unwrap(call_st.result) = Ok(Number([repr |-> "u64 as f64", u |-> U64_MAX]))

\* C18: for every type code other than void and every stored bit pattern,
\* loadScalar returns the script value call returns for a native function of
\* that result type returning that value, a stored null pointer included.
C18_LoadAsCallResult ==
    (/\ Unwrap(sc).pc = "loaded"
     /\ IsOk(ScalarType(Unwrap(sc_in).code))
     /\ ScalarType(Unwrap(sc_in).code).v # "Void") =>
        Unwrap(Unwrap(sc).loaded) =
            Ok(call_result(ScalarType(Unwrap(sc_in).code).v, Unwrap(sc).mem))

\* the table coerced is a cdata: its marker is boolean true and its `__ptr` a
\* light userdata or absent; the address it stands for
IsCDataTable(value) ==
    /\ value.kind = "table"
    /\ raw_get(value, "__ffi_cdata") = Boolean(TRUE)
    /\ raw_get(value, "__ptr").kind \in {"lightuserdata", "nil"}
CDataAddress(value) ==
    IF raw_get(value, "__ptr").kind = "lightuserdata" THEN raw_get(value, "__ptr").p ELSE NULL

\* the three coercions of the table, each as Ok of the address or as its failure
TablePointerCoercions ==
    (IF Unwrap(co_out).typed = None THEN {}
     ELSE {IF IsOk(Unwrap(Unwrap(co_out).typed))
           THEN Ok(Unwrap(Unwrap(co_out).typed).v.arg.bytes)
           ELSE Unwrap(Unwrap(co_out).typed)})
    \cup {Unwrap(r) : r \in {Unwrap(co_out).stored, Unwrap(co_out).result} \ {None}}

\* C19: wherever a table is coerced to a pointer (a pointer-typed call argument,
\* storeScalar of a pointer, a callback's pointer result), a table whose
\* `__ffi_cdata` is boolean true and whose `__ptr` is a light userdata or absent
\* converts, to that address or to null, whatever its other fields hold; a
\* table whose marker is absent or not boolean true fails.
C19_TableToPointer ==
    (Unwrap(co_in).ty = "Pointer" /\ Unwrap(co_in).value.kind = "table") =>
        \A r \in TablePointerCoercions :
            /\ IsCDataTable(Unwrap(co_in).value) => r = Ok(CDataAddress(Unwrap(co_in).value))
            /\ raw_get(Unwrap(co_in).value, "__ffi_cdata") # Boolean(TRUE) => IsErr(r)

(***************************************************************************)
(* native.rs: getErrno and setErrno                                        *)
(*                                                                         *)
(* errno_location() is the calling thread's C errno, a c_int of 4 bytes.   *)
(***************************************************************************)
\* get_errno: the c_int at the thread's errno location
get_errno(cell) == cell

\* set_errno: the c_int written to the thread's errno location
set_errno(cell, value) == value

\* errno_get_fn (getErrno): i64::from(get_errno())
errno_get_fn(cell) == Ok(Integer(sign_extend(get_errno(cell), 8)))

\* errno_set_fn without the range check
errno_set_unchecked(cell, coerced) ==
    [ret |-> Ok(<<>>), cell |-> set_errno(cell, truncate(coerced, 4))]

\* errno_set_fn after the coercion: the range check, then set_errno
errno_set_checked(cell, coerced) ==
    IF lt_signed(coerced, I64_I32_MIN) \/ lt_signed(I64_I32_MAX, coerced)
    THEN [ret |-> Err("errno value out of range for C int"), cell |-> cell]
    ELSE [ret |-> Ok(<<>>), cell |-> set_errno(cell, truncate(coerced, 4))]

\* errno_set_fn (setErrno)
errno_set_fn(cell, value) ==
    IF IsOk(lua_value_to_i64(value))
    THEN errno_set_checked(cell, lua_value_to_i64(value).v)
    ELSE [ret |-> lua_value_to_i64(value), cell |-> cell]

(***************************************************************************)
(* SpecErrno: getErrno and setErrno called on two threads, and the C       *)
(* library writing a thread's errno in between                             *)
(***************************************************************************)
MaxErrnoOps == 3

Threads == {"t1", "t2"}

\* 0 at thread start, or a value the platform seeded (ENOENT)
ErrnoSeeds == {<<0, 0, 0, 0>>, <<2, 0, 0, 0>>}

\* what a C library call may leave in errno (EINTR, EAGAIN)
LibcErrnos == {<<4, 0, 0, 0>>, <<11, 0, 0, 0>>}

ErrnoValues ==
    {Integer(I64(42)), Integer(I64(0)), Integer(I64(-1)), Integer(I64_I32_MAX),
     Integer(I64_I32_MIN), Integer(I64_2P31), Integer(I64_BELOW_I32), Integer(I64_MAX),
     Number(Finite(FALSE, I64(7), "zero")), Number(Finite(FALSE, I64(3), "large")),
     Number(Finite(FALSE, I64(1), "tiny")), Number(Huge(FALSE)), Boolean(TRUE),
     String("%d"), Nil}

ErrnoInit ==
    errno \in {Some([cell |-> c, set |-> [t \in Threads |-> None], ops |-> 0, last |-> None]) :
                  c \in [Threads -> ErrnoSeeds]}

\* the state after an operation of thread t: the errno cells, the value the
\* thread's last setErrno set while nothing has written its errno since, and
\* the operation with the cells it found
errno_after(st, t, op, arg, ret, cell, set) ==
    [cell |-> [st.cell EXCEPT ![t] = cell],
     set |-> [st.set EXCEPT ![t] = set],
     ops |-> st.ops + 1,
     last |-> Some([thread |-> t, op |-> op, arg |-> arg, ret |-> ret, before |-> st.cell])]

\* setErrno(value) on thread t
SetErrno ==
    /\ Unwrap(errno).ops < MaxErrnoOps
    /\ \E t \in Threads, value \in ErrnoValues :
         errno' = Some(errno_after(Unwrap(errno), t, "setErrno", value,
                                   errno_set_fn(Unwrap(errno).cell[t], value).ret,
                                   errno_set_fn(Unwrap(errno).cell[t], value).cell,
                                   IF IsOk(errno_set_fn(Unwrap(errno).cell[t], value).ret)
                                   THEN Some(value) ELSE Unwrap(errno).set[t]))
    /\ UNCHANGED <<buildVars, lateVars, sigVars, callVars, variadicVars, callbackVars, loaderVars,
                   scalarVars, bytesVars, coerceVars>>

\* getErrno() on thread t
GetErrno ==
    /\ Unwrap(errno).ops < MaxErrnoOps
    /\ \E t \in Threads :
         errno' = Some(errno_after(Unwrap(errno), t, "getErrno", Nil,
                                   errno_get_fn(Unwrap(errno).cell[t]),
                                   Unwrap(errno).cell[t], Unwrap(errno).set[t]))
    /\ UNCHANGED <<buildVars, lateVars, sigVars, callVars, variadicVars, callbackVars, loaderVars,
                   scalarVars, bytesVars, coerceVars>>

\* a C library call on thread t writes the thread's errno
LibcWritesErrno ==
    /\ Unwrap(errno).ops < MaxErrnoOps
    /\ \E t \in Threads, e \in LibcErrnos :
         errno' = Some(errno_after(Unwrap(errno), t, "libc", Nil, Ok(<<>>), e, None))
    /\ UNCHANGED <<buildVars, lateVars, sigVars, callVars, variadicVars, callbackVars, loaderVars,
                   scalarVars, bytesVars, coerceVars>>

InitErrno ==
    /\ BuildInit /\ LateIdle /\ ErrnoInit
    /\ SigIdle /\ CallIdle /\ VariadicIdle /\ CallbackIdle /\ LoaderIdle
    /\ ScalarIdle /\ BytesIdle /\ CoerceIdle
NextErrno == SetErrno \/ GetErrno \/ LibcWritesErrno
SpecErrno == InitErrno /\ [][NextErrno]_vars

\* the value is an integer of the C int range
InCIntRange(value) ==
    /\ IntegerOf(value) # None
    /\ InSignedRange(Unwrap(IntegerOf(value)), 32)

IsNumeric(value) == value.kind \in {"integer", "number"}

\* the result of getErrno is the script integer equal to the value
ReadsBack(ret, value) ==
    /\ IsOk(ret)
    /\ IntegerOf(value) = Some(ret.v.i)

\* C20: the errno mirror is per thread.  After a setErrno(v) that succeeded,
\* getErrno on the same thread returns v as long as nothing has written the
\* thread's errno since; no operation of one thread changes another thread's
\* errno; setErrno of a number v succeeds when v is in the C int range, and
\* fails and leaves errno unchanged when v is outside it.
C20_ErrnoPerThread ==
    Unwrap(errno).last # None =>
        LET st == Unwrap(errno)
            op == Unwrap(st.last)
        IN  /\ \A t \in Threads \ {op.thread} : st.cell[t] = op.before[t]
            /\ op.op = "getErrno" => st.cell = op.before
            /\ (op.op = "getErrno" /\ st.set[op.thread] # None) =>
                   (IsNumeric(Unwrap(st.set[op.thread])) =>
                        ReadsBack(op.ret, Unwrap(st.set[op.thread])))
            /\ (op.op = "setErrno" /\ IsNumeric(op.arg)) =>
                   /\ InCIntRange(op.arg) => IsOk(op.ret)
                   /\ IsOk(op.ret) => ReadsBack(errno_get_fn(st.cell[op.thread]), op.arg)
                   /\ (IntegerOf(op.arg) # None \/ IsIntegerBeyondI64(op.arg))
                        /\ ~InCIntRange(op.arg) => IsErr(op.ret)
                   /\ IsErr(op.ret) => st.cell = op.before

(***************************************************************************)
(* SpecInvoke: call() over signatures and arguments that fail at every     *)
(* step before the native function                                         *)
(***************************************************************************)
InvokeAbis == {None, Some("stdcall")}
InvokeArgDescs ==
    {DescString("int8"), DescString("pointer"), DescString("void"), DescString("intptr_t")}
InvokeValues == {Integer(I64(5)), Integer(I64(300)), String("%d"), String("a<NUL>b")}

InvokeSigTables ==
    [abi : InvokeAbis,
     result : {DescString("int32")},
     args : {Some(a) : a \in SeqsUpTo(InvokeArgDescs, MaxArgs)},
     variadic : {None, Some(TRUE)},
     fixedCount : {None, Some(1), Some(MaxArgs + 1)}]

InvokeArgsTables == [n : {None}, items : SeqsUpTo(InvokeValues, MaxArgs)]

InvokeInit ==
    /\ call_in \in {Some([sig_table |-> s, args_table |-> a, func |-> NativeReturns]) :
                        s \in InvokeSigTables, a \in InvokeArgsTables}
    /\ call_st = CallIdleState

InitInvoke ==
    /\ BuildInit /\ LateIdle /\ InvokeInit
    /\ SigIdle /\ VariadicIdle /\ CallbackIdle /\ LoaderIdle /\ NativeIdle
SpecInvoke == InitInvoke /\ [][NextCall]_vars

\* the arity check passes for the count the script passed
ArityFits(sig, a) ==
    IF sig.variadic THEN PassedCount(a) >= sig.fixed_count
    ELSE PassedCount(a) = Len(sig.args)

\* the indexes (from 0) of the arguments whose marshalling fails, each taken
\* on its own
FailingIndexes(sig, a) ==
    {i \in 0..(PassedCount(a) - 1) :
        ~IsOk(ExpectedConversion(sig, raw_get_index(a, i + 1), i))}

Least(S) == CHOOSE i \in S : \A j \in S : i <= j

\* the step of call that fails first is the marshalling of an argument
MarshallingFails(sig, a) == ArityFits(sig, a) /\ FailingIndexes(sig, a) # {}

\* C21: in one execution of call the native function is invoked at most once,
\* and only after signature construction, the arity check and the marshalling
\* of every argument have succeeded; when one of them fails the native
\* function is not invoked and call returns the error of the step that
\* failed first.
C21_InvokedAfterSuccess ==
    LET t == Unwrap(call_in).sig_table
        a == Unwrap(call_in).args_table
        sig == from_table(t)
    IN  /\ call_st.invoked \in {0, 1}
        /\ call_st.pc = "idle" => call_st.invoked = 0
        /\ call_st.invoked = 0 => call_st.raw = None
        /\ call_st.invoked = 1 =>
              /\ call_st.pc \in {"in_native", "returned"}
              /\ IsOk(sig)
              /\ ArityFits(sig.v, a)
              /\ FailingIndexes(sig.v, a) = {}
        /\ (call_st.pc # "idle" /\ ~IsOk(sig)) =>
              /\ call_st.invoked = 0 /\ call_st.pc = "returned"
              /\ call_st.result = Some(sig)
        /\ (call_st.pc # "idle" /\ IsOk(sig)) =>
              /\ ~ArityFits(sig.v, a) =>
                    /\ call_st.invoked = 0 /\ call_st.pc = "returned"
                    /\ IsArityError(Unwrap(call_st.result))
              /\ MarshallingFails(sig.v, a) =>
                    /\ call_st.invoked = 0 /\ call_st.pc = "returned"
                    /\ call_st.result =
                          Some(ExpectedConversion(
                                   sig.v, raw_get_index(a, Least(FailingIndexes(sig.v, a)) + 1),
                                   Least(FailingIndexes(sig.v, a))))

\* a call whose first argument marshalled and whose second, a string with a
\* NUL inside, did not: it returned that error and the native function was
\* not invoked
C21_Witness ==
    /\ call_st.pc = "returned"
    /\ call_st.invoked = 0
    /\ IsOk(from_table(Unwrap(call_in).sig_table))
    /\ Unwrap(call_in).args_table.items = <<Integer(I64(5)), String("a<NUL>b")>>
    /\ FailingIndexes(from_table(Unwrap(call_in).sig_table).v, Unwrap(call_in).args_table) = {1}
    /\ IsErr(Unwrap(call_st.result))

(***************************************************************************)
(* call.rs: one execution of call step by step, with the heap that holds   *)
(* the buffers of its CStrings                                             *)
(*                                                                         *)
(* Frame 1 is a foreground call.  Frame 2 is a call issued by the script   *)
(* function of a callback that fires while frame 1 is in flight: from the   *)
(* native callee of frame 1 ("nested"), or on a thread the callee created  *)
(* ("thread").  Every frame has its own locals (arg_values, arg_types,     *)
(* _owned_strings); the heap is shared.                                    *)
(***************************************************************************)
Frames == {1, 2}

\* the addresses the allocator hands out for CString buffers
HeapAddrs == {anchor_ptr(k) : k \in 1..(MaxArgs + 2)}

FreeCell == [live |-> FALSE, bytes |-> <<>>]

FrameIdleState ==
    [pc |-> "idle", signature |-> None, index |-> 0, values |-> <<>>, arg_types |-> <<>>,
     string_refs |-> <<>>, cif |-> None, reads |-> None, result |-> None]

\* CString::new: the allocator returns the free address `a` and the bytes are
\* copied there
heap_alloc(heap, a, bytes) == [heap EXCEPT ![a] = [live |-> TRUE, bytes |-> bytes]]

\* a drop of the anchor list that releases nothing
heap_drop_leaking(heap, string_refs) == heap

\* drop of a Vec<CString>: every buffer it owns is released
heap_drop(heap, string_refs) ==
    [a \in DOMAIN heap |->
        IF \E k \in 1..Len(string_refs) : string_refs[k] = a THEN FreeCell ELSE heap[a]]

\* the bytes of the CStrings a frame owns
owned_bytes(heap, string_refs) ==
    [k \in 1..Len(string_refs) |-> heap[string_refs[k]].bytes]

\* an early return of call: the locals drop
frame_failed(F, error) ==
    [F EXCEPT !.pc = "returned", !.result = Some(error), !.values = <<>>,
              !.arg_types = <<>>, !.string_refs = <<>>]

\* call() up to the loop of collect_arguments: from_table, the count, the
\* arity check
frame_begun(F, signature, args_table) ==
    IF ~IsOk(signature) THEN frame_failed(F, signature)
    ELSE IF u32_field_fails(args_table.n)
    THEN frame_failed(F, Err("error converting Lua number to u32"))
    ELSE IF ~IsOk(check_arity(signature.v, argument_count(args_table)))
    THEN frame_failed(F, check_arity(signature.v, argument_count(args_table)))
    ELSE [F EXCEPT !.pc = "marshalling", !.signature = Some(signature.v)]

\* one round of the loop of collect_arguments in frame f: `converted` is what
\* convert_argument returned, `a` the address the allocator has free
frame_marshalled(st, f, converted, hint, a) ==
    IF ~IsOk(converted)
    THEN [st EXCEPT !.frames[f] = frame_failed(@, converted),
                    !.heap = heap_drop(@, st.frames[f].string_refs)]
    ELSE IF Len(converted.v.refs) > Len(st.frames[f].string_refs)
    THEN [st EXCEPT !.frames[f].index = @ + 1,
                    !.frames[f].values = Append(@, ArgPointer(a)),
                    !.frames[f].arg_types =
                        Append(@, to_libffi_type(IF IsSome(hint) THEN Unwrap(hint)
                                                 ELSE converted.v.code)),
                    !.frames[f].string_refs = Append(@, a),
                    !.heap = heap_alloc(@, a, converted.v.refs[Len(converted.v.refs)])]
    ELSE [st EXCEPT !.frames[f].index = @ + 1,
                    !.frames[f].values = Append(@, converted.v.arg),
                    !.frames[f].arg_types =
                        Append(@, to_libffi_type(IF IsSome(hint) THEN Unwrap(hint)
                                                 ELSE converted.v.code))]

\* what the native function finds behind its pointer arguments: the bytes of a
\* live buffer, or a released buffer
deref(heap, arg) ==
    IF arg.tag # "Pointer" \/ arg.bytes \notin DOMAIN heap THEN None
    ELSE IF heap[arg.bytes].live THEN Some(heap[arg.bytes].bytes)
    ELSE Some("released")

\* a return that releases every buffer on the heap, as if the anchor list were
\* one list shared by all executions of call
frame_returned_dropping_all(st, f, raw) ==
    [st EXCEPT !.frames[f].pc = "returned",
               !.frames[f].result =
                   Some(Ok(call_result(Unwrap(st.frames[f].signature).result, raw))),
               !.frames[f].values = <<>>,
               !.frames[f].arg_types = <<>>,
               !.frames[f].string_refs = <<>>,
               !.heap = [a \in DOMAIN st.heap |-> FreeCell]]

\* call_with_signature returns: the result is made, then the locals of call
\* drop
frame_returned(st, f, raw) ==
    [st EXCEPT !.frames[f].pc = "returned",
               !.frames[f].result =
                   Some(Ok(call_result(Unwrap(st.frames[f].signature).result, raw))),
               !.frames[f].values = <<>>,
               !.frames[f].arg_types = <<>>,
               !.frames[f].string_refs = <<>>,
               !.heap = heap_drop(@, st.frames[f].string_refs)]

(***************************************************************************)
(* SpecFrames                                                              *)
(***************************************************************************)
FrameArgDescs == {DescString("pointer")}
FrameValues == {String("%d"), String("a<NUL>b"), Integer(I64(5))}

FrameCall(args, variadic, items) ==
    [sig_table |-> [abi |-> None, result |-> DescString("int32"), args |-> Some(args),
                    variadic |-> variadic, fixedCount |-> None],
     args_table |-> [n |-> None, items |-> items]]

OuterCalls ==
    {FrameCall(args, variadic, items) :
        args \in SeqsUpTo(FrameArgDescs, MaxArgs), variadic \in {None, Some(TRUE)},
        items \in SeqsUpTo(FrameValues, MaxArgs)}

InnerCalls ==
    {FrameCall(<<DescString("pointer")>>, Some(TRUE), <<String("%d"), String("")>>),
     FrameCall(<<DescString("pointer")>>, Some(TRUE), <<String("%d"), String("a<NUL>b")>>)}

FramesInit ==
    /\ fr_in \in {Some([mode |-> m, calls |-> <<outer, inner>>]) :
                     m \in {"nested", "thread"}, outer \in OuterCalls, inner \in InnerCalls}
    /\ fr = Some([frames |-> [f \in Frames |-> FrameIdleState],
                  heap |-> [a \in HeapAddrs |-> FreeCell]])

\* whether frame f may run: the inner call runs while the outer one is in its
\* native function; on a thread of its own it runs on once it has begun
MayRun(f) ==
    \/ f = 1
    \/ Unwrap(fr).frames[1].pc = "in_native"
    \/ Unwrap(fr_in).mode = "thread" /\ Unwrap(fr).frames[2].pc # "idle"

\* call() begins in frame f
CallBegin ==
    /\ \E f \in Frames :
         /\ Unwrap(fr).frames[f].pc = "idle"
         /\ MayRun(f)
         /\ fr' = Some([Unwrap(fr) EXCEPT
                           !.frames[f] =
                               frame_begun(@, from_table(Unwrap(fr_in).calls[f].sig_table),
                                           Unwrap(fr_in).calls[f].args_table)])
    /\ UNCHANGED <<fr_in, buildVars, sigVars, callVars, variadicVars, callbackVars,
                   loaderVars, nativeVars, clampVars>>

\* one round of the loop of collect_arguments in frame f
MarshalArgument ==
    /\ \E f \in Frames, a \in HeapAddrs :
         /\ Unwrap(fr).frames[f].pc = "marshalling"
         /\ MayRun(f)
         /\ Unwrap(fr).frames[f].index < argument_count(Unwrap(fr_in).calls[f].args_table)
         /\ ~Unwrap(fr).heap[a].live
         /\ fr' = Some(frame_marshalled(
                           Unwrap(fr), f,
                           convert_at(raw_get_index(Unwrap(fr_in).calls[f].args_table,
                                                    Unwrap(fr).frames[f].index + 1),
                                      type_hint(Unwrap(Unwrap(fr).frames[f].signature),
                                                Unwrap(fr).frames[f].index),
                                      Unwrap(fr).frames[f].index
                                            < Unwrap(Unwrap(fr).frames[f].signature).fixed_count
                                        \/ ~Unwrap(Unwrap(fr).frames[f].signature).variadic,
                                      owned_bytes(Unwrap(fr).heap,
                                                  Unwrap(fr).frames[f].string_refs),
                                      CallMem),
                           type_hint(Unwrap(Unwrap(fr).frames[f].signature),
                                     Unwrap(fr).frames[f].index),
                           a))
    /\ UNCHANGED <<fr_in, buildVars, sigVars, callVars, variadicVars, callbackVars,
                   loaderVars, nativeVars, clampVars>>

\* collect_arguments has returned Ok: arg_refs, build_cif, and
\* call_with_signature enters the native function
InvokeNative ==
    /\ \E f \in Frames :
         /\ Unwrap(fr).frames[f].pc = "marshalling"
         /\ MayRun(f)
         /\ Unwrap(fr).frames[f].index = argument_count(Unwrap(fr_in).calls[f].args_table)
         /\ fr' = Some([Unwrap(fr) EXCEPT
                           !.frames[f].pc = "in_native",
                           !.frames[f].cif =
                               Some(build_cif(Unwrap(Unwrap(fr).frames[f].signature),
                                              Unwrap(fr).frames[f].arg_types))])
    /\ UNCHANGED <<fr_in, buildVars, sigVars, callVars, variadicVars, callbackVars,
                   loaderVars, nativeVars, clampVars>>

\* the native function of frame f dereferences its pointer arguments
NativeReads ==
    /\ \E f \in Frames :
         /\ Unwrap(fr).frames[f].pc = "in_native"
         /\ fr' = Some([Unwrap(fr) EXCEPT
                           !.frames[f].reads =
                               Some([k \in 1..Len(Unwrap(fr).frames[f].values) |->
                                        deref(Unwrap(fr).heap,
                                              Unwrap(fr).frames[f].values[k])])])
    /\ UNCHANGED <<fr_in, buildVars, sigVars, callVars, variadicVars, callbackVars,
                   loaderVars, nativeVars, clampVars>>

\* the native function of frame f returns and call returns; a callee that
\* called back returns after the callback has
FrameReturn ==
    /\ \E f \in Frames :
         /\ Unwrap(fr).frames[f].pc = "in_native"
         /\ (f = 1 /\ Unwrap(fr_in).mode = "nested") =>
                Unwrap(fr).frames[2].pc \in {"idle", "returned"}
         /\ fr' = Some(frame_returned(Unwrap(fr), f, I64(42)))
    /\ UNCHANGED <<fr_in, buildVars, sigVars, callVars, variadicVars, callbackVars,
                   loaderVars, nativeVars, clampVars>>

InitFrames ==
    /\ BuildInit /\ FramesInit /\ ClampIdle
    /\ SigIdle /\ CallIdle /\ VariadicIdle /\ CallbackIdle /\ LoaderIdle /\ NativeIdle
NextFrames == CallBegin \/ MarshalArgument \/ InvokeNative \/ NativeReads \/ FrameReturn
SpecFrames == InitFrames /\ [][NextFrames]_vars

\* the NUL-terminated copy of the k-th argument of frame f, a string
AnchorCopy(f, k) ==
    as_bytes(raw_get_index(Unwrap(fr_in).calls[f].args_table, k).text) \o <<0>>

IsStringArgument(f, k) ==
    raw_get_index(Unwrap(fr_in).calls[f].args_table, k).kind = "string"

\* frame f is in flight and owns the buffer at address a
FrameOwns(f, a) ==
    /\ Unwrap(fr).frames[f].pc \in {"marshalling", "in_native"}
    /\ \E k \in 1..Len(Unwrap(fr).frames[f].string_refs) :
           Unwrap(fr).frames[f].string_refs[k] = a

\* every string argument frame f has marshalled points to a live buffer of
\* the frame that holds the copy of the string
AnchorsIntact(f) ==
    \A k \in 1..Len(Unwrap(fr).frames[f].values) :
        IsStringArgument(f, k) =>
            /\ Unwrap(fr).frames[f].values[k].tag = "Pointer"
            /\ FrameOwns(f, Unwrap(fr).frames[f].values[k].bytes)
            /\ Unwrap(fr).heap[Unwrap(fr).frames[f].values[k].bytes]
                   = [live |-> TRUE, bytes |-> AnchorCopy(f, k)]

\* C22: every NUL-terminated copy made for a string argument stays allocated
\* and unmodified from the moment its address is in the argument vector until
\* the native call has returned; every copy is released when call returns,
\* with a result or with an error; what the native function reads behind a
\* string argument is never a released buffer.
C22_AnchorsLive ==
    /\ \A f \in Frames :
          /\ Unwrap(fr).frames[f].pc \in {"marshalling", "in_native"} => AnchorsIntact(f)
          /\ Unwrap(fr).frames[f].pc \in {"idle", "returned"} =>
                Unwrap(fr).frames[f].string_refs = <<>>
          /\ Unwrap(fr).frames[f].reads # None =>
                \A k \in 1..Len(Unwrap(Unwrap(fr).frames[f].reads)) :
                    IsStringArgument(f, k) =>
                        Unwrap(Unwrap(fr).frames[f].reads)[k] = Some(AnchorCopy(f, k))
    /\ \A a \in HeapAddrs :
          Unwrap(fr).heap[a].live => \E f \in Frames : FrameOwns(f, a)

\* a call with two string arguments returned from its native function, which
\* had read both copies, and nothing is left allocated
C22_Witness ==
    /\ Unwrap(fr).frames[1].pc = "returned"
    /\ IsOk(Unwrap(Unwrap(fr).frames[1].result))
    /\ Unwrap(fr).frames[1].reads = Some(<<Some(<<37, 100, 0>>), Some(<<37, 100, 0>>)>>)
    /\ \A a \in HeapAddrs : ~Unwrap(fr).heap[a].live

\* the declared argument at index k (from 1) demarshals from the storage
\* libffi handed over
Demarshalled(k) == read_argument(NativeArgs[k], Unwrap(cb.signature).args[k])

\* C23: in one trampoline invocation the pinned script function is called at
\* most once; it is called exactly when every declared argument has been
\* demarshalled, with len(args) values in declared order; when a declared
\* argument has type void the script function is not called and the
\* invocation is rejected.
C23_ScriptCalledOnce ==
    (cb.last # None) =>
        LET args == Unwrap(cb.signature).args
        IN  /\ Len(cb.calls) <= 1
            /\ Len(cb.calls) = 1 <=> \A k \in 1..Len(args) : IsOk(Demarshalled(k))
            /\ Len(cb.calls) = 1 =>
                  /\ Len(cb.calls[1]) = Len(args)
                  /\ \A k \in 1..Len(args) : cb.calls[1][k] = Demarshalled(k).v
            /\ (\E k \in 1..Len(args) : args[k] = "Void") =>
                  /\ cb.calls = <<>>
                  /\ Unwrap(cb.last) = Err("void type cannot be used as a callback argument")
                  /\ cb.slot = zeroed(CALLBACK_RESULT_SIZE)
                  /\ cb.errors > 0

\* an invocation of a callback of two arguments called the script function
\* once, with the unsigned integer and the null pointer as nil
C23_Witness ==
    /\ cb.last # None
    /\ Len(cb.calls) = 1
    /\ cb.calls[1] = <<integer_or_number(CallMem[A1]), Nil>>

(***************************************************************************)
(* SpecFrozen: SpecCallback with a script that modifies the signature      *)
(* table it has handed to createCallback                                   *)
(***************************************************************************)
\* what the script may turn the table into: other result and args, another
\* ABI with variadic and fixedCount set, a table from_table rejects
FrozenEdits ==
    {[abi |-> None, result |-> DescString("double"), args |-> Some(<<DescString("int32")>>),
      variadic |-> None, fixedCount |-> None],
     [abi |-> Some("cdecl"), result |-> DescString("void"),
      args |-> Some(<<DescString("pointer"), DescString("uint64")>>),
      variadic |-> Some(TRUE), fixedCount |-> Some(1)],
     [abi |-> None, result |-> DescString("int8"), args |-> Some(<<>>),
      variadic |-> None, fixedCount |-> Some(1)]}

\* the tables createCallback is called with
FrozenSigTables ==
    {t \in CallbackSigTables :
        t.result \in {DescString(c) : c \in {"void", "int8", "uint64", "pointer"}}}

FrozenInit ==
    /\ cb_in \in {Some([sig_table |-> t, warn |-> w, original |-> t]) :
                     t \in FrozenSigTables, w \in WarnKinds}
    /\ cb = CallbackIdleState

\* the script assigns fields of the table after createCallback has returned
ModifyTable ==
    /\ cb.pc = "live"
    /\ \E t \in FrozenEdits :
         /\ t # Unwrap(cb_in).sig_table
         /\ cb_in' = Some([Unwrap(cb_in) EXCEPT !.sig_table = t])
    /\ UNCHANGED <<cb, buildVars, lateVars, nativeVars, sigVars, callVars, variadicVars, loaderVars>>

InitFrozen ==
    /\ BuildInit /\ LateIdle /\ FrozenInit
    /\ SigIdle /\ CallIdle /\ VariadicIdle /\ LoaderIdle /\ NativeIdle
NextFrozen == CreateCallback \/ ModifyTable \/ Trampoline \/ DropClosure \/ DropData
SpecFrozen == InitFrozen /\ [][NextFrozen]_vars

\* the signature createCallback built of the table as it was then
OriginalSignature == from_table(Unwrap(cb_in).original).v

\* C24: a callback's signature is fixed at createCallback time.  Whatever the
\* script does to the signature table afterwards, the stored Signature and
\* the Cif stay the ones built of the table as it was, no invocation or drop
\* changes them, the trampoline demarshals the arguments the original table
\* declared and marshals the result under the original result type.
C24_SignatureFixed ==
    (cb.signature # None) =>
        /\ cb.signature = Some(OriginalSignature)
        /\ cb.cif # None =>
              cb.cif = Some(build_cif(OriginalSignature, arg_types_of(OriginalSignature)))
        /\ cb.last # None =>
              /\ Len(cb.calls) = 1 =>
                    /\ Len(cb.calls[1]) = Len(OriginalSignature.args)
                    /\ \A k \in 1..Len(OriginalSignature.args) :
                           cb.calls[1][k]
                               = read_argument(NativeArgs[k], OriginalSignature.args[k]).v
              /\ IsOk(Unwrap(cb.last)) =>
                    /\ Len(Unwrap(cb.last).v) = size_of(OriginalSignature.result)
                    /\ cb.slot = Unwrap(cb.last).v
                                    \o zeroed(CALLBACK_RESULT_SIZE - Len(Unwrap(cb.last).v))

\* a callback created with a uint64 and a pointer argument was invoked after
\* its table had been given other args and another result: the script
\* function got the two original arguments
C24_Witness ==
    /\ cb.last # None
    /\ Unwrap(cb_in).sig_table # Unwrap(cb_in).original
    /\ Unwrap(cb_in).sig_table.result = DescString("double")
    /\ Len(cb.calls) = 1
    /\ Len(cb.calls[1]) = 2
    /\ IsOk(Unwrap(cb.last))

\* while the closure is alive the registry key is present, and no invocation
\* has failed for want of it
KeyWhileAlive ==
    /\ cb.closure = "alive" => cb.key = "pinned"
    /\ cb.last # None => Unwrap(cb.last) # Err("callback function has been released")

\* an invocation of the trampoline leaves the stored signature, the registry
\* key, the boxed data and the closure as they were
InvocationKeeps ==
    cb'.invocations > cb.invocations =>
        /\ cb'.signature = cb.signature
        /\ cb'.key = cb.key
        /\ cb'.data = cb.data
        /\ cb'.closure = cb.closure

\* after an invocation the callback can be invoked again
StaysInvocable ==
    cb'.invocations > cb.invocations => (cb'.pc = "live" /\ cb'.closure = "alive")

\* C25: in every state in which a callback's closure is alive the registry key
\* of its script function is present, so the trampoline never fails with
\* "callback function has been released"; no trampoline invocation,
\* successful or failing, changes the stored signature, registry key or
\* closure, so the callback stays invocable after any number of invocations.
C25_StaysInvocable ==
    /\ []KeyWhileAlive
    /\ [][InvocationKeeps /\ StaysInvocable]_vars

(***************************************************************************)
(* SpecClamp: clamp_signed and clamp_unsigned at the bit widths they are   *)
(* called with, and the intptr/uintptr coercions that call them            *)
(***************************************************************************)
\* whether -(1i64 << (bits - 1)) and (1i64 << (bits - 1)) - 1 leave the i64
\* range: 1 << 63 is i64::MIN, which has no negation and no predecessor
signed_bounds_overflow(bits) == shl_one(bits - 1, 8) = I64_MIN

\* whether the bound of clamp_unsigned is computed with a shift by the whole
\* width: bits = 64 takes u64::MAX without shifting
unsigned_bound_overflows(bits) == IF bits = 64 THEN FALSE ELSE bits >= 64

ClampValues ==
    {I64(0), I64(-1), I64(127), I64(128), I64(-128), I64(-129), I64(255), I64(256),
     I64_I32_MAX, I64_2P31, I64_I32_MIN, I64_BELOW_I32, I64_U32_MAX, I64_2P32,
     I64_MAX, I64_MIN}

ClampNone == [signed |-> None, unsigned |-> None, intptr |-> None, uintptr |-> None]

\* the widths the callers pass: 8, 16, 32 and usize::BITS
ClampInit ==
    /\ cl_in \in {Some([value |-> v, bits |-> b]) : v \in ClampValues, b \in {8, 16, 32, 64}}
    /\ Unwrap(cl_in).bits \in {8, 16, 32, pointer_width}
    /\ cl_out = ClampNone

\* clamp_signed(value, bits)
ClampSigned ==
    /\ cl_out.signed = None
    /\ cl_out' = [cl_out EXCEPT
                     !.signed = Some([res |-> clamp_signed(Unwrap(cl_in).value,
                                                           Unwrap(cl_in).bits),
                                      overflowed |-> signed_bounds_overflow(Unwrap(cl_in).bits)])]
    /\ UNCHANGED <<cl_in, buildVars, sigVars, callVars, variadicVars, callbackVars,
                   loaderVars, nativeVars, frameVars>>

\* clamp_unsigned(value as u64, bits)
ClampUnsigned ==
    /\ cl_out.unsigned = None
    /\ cl_out' = [cl_out EXCEPT
                     !.unsigned = Some([res |-> clamp_unsigned(Unwrap(cl_in).value,
                                                               Unwrap(cl_in).bits),
                                        overflowed |->
                                            unsigned_bound_overflows(Unwrap(cl_in).bits)])]
    /\ UNCHANGED <<cl_in, buildVars, sigVars, callVars, variadicVars, callbackVars,
                   loaderVars, nativeVars, frameVars>>

\* the value passed to call as an intptr_t argument
TypedIntPtr ==
    /\ cl_out.intptr = None
    /\ cl_out' = [cl_out EXCEPT
                     !.intptr = Some(convert_typed_argument(Integer(Unwrap(cl_in).value),
                                                            "IntPtr", <<>>))]
    /\ UNCHANGED <<cl_in, buildVars, sigVars, callVars, variadicVars, callbackVars,
                   loaderVars, nativeVars, frameVars>>

\* the value passed to call as a size_t argument
TypedUIntPtr ==
    /\ cl_out.uintptr = None
    /\ cl_out' = [cl_out EXCEPT
                     !.uintptr = Some(convert_typed_argument(Integer(Unwrap(cl_in).value),
                                                             "UIntPtr", <<>>))]
    /\ UNCHANGED <<cl_in, buildVars, sigVars, callVars, variadicVars, callbackVars,
                   loaderVars, nativeVars, frameVars>>

InitClamp ==
    /\ BuildInit /\ ClampInit /\ FramesIdle
    /\ SigIdle /\ CallIdle /\ VariadicIdle /\ CallbackIdle /\ LoaderIdle /\ NativeIdle
NextClamp == ClampSigned \/ ClampUnsigned \/ TypedIntPtr \/ TypedUIntPtr
SpecClamp == InitClamp /\ [][NextClamp]_vars

\* C26: clamp_signed computes its bounds without overflow at every width it
\* is called with and accepts exactly the values of the width, every value
\* when bits = 64; clamp_unsigned likewise; so the intptr and uintptr
\* coercions neither fail nor abort for a value of the pointer width.
C26_ClampBounds ==
    LET v == Unwrap(cl_in).value
        bits == Unwrap(cl_in).bits
    IN  /\ cl_out.signed # None =>
              /\ ~Unwrap(cl_out.signed).overflowed
              /\ Unwrap(cl_out.signed).res =
                    (IF InSignedRange(v, bits) THEN Ok(v)
                     ELSE Err("signed argument out of range"))
        /\ cl_out.unsigned # None =>
              /\ ~Unwrap(cl_out.unsigned).overflowed
              /\ Unwrap(cl_out.unsigned).res =
                    (IF bits = 64 \/ ~lt_unsigned(word_dec(shl_one(bits, 8)), v) THEN Ok(v)
                     ELSE Err("unsigned argument out of range"))
        /\ (cl_out.intptr # None /\ InSignedRange(v, pointer_width)) =>
              IsOk(Unwrap(cl_out.intptr))
        /\ (cl_out.uintptr # None /\ InUnsignedRange(v, pointer_width)) =>
              IsOk(Unwrap(cl_out.uintptr))

\* the FFI types C default promotion leaves no argument with
UnpromotedTypes == {"i8", "u8", "i16", "u16", "f32"}

\* C27: for every variadic call, every FFI type in the Cif's type vector at an
\* index >= fixed_count is a default-promoted type, never an integer narrower
\* than 32 bits and never f32, whether it came from a type hint or from
\* inference on the value.
C27_TailPromoted ==
    (call_st.pc = "in_native" /\ Unwrap(call_st.signature).variadic) =>
        \A i \in 0..(Len(Unwrap(call_st.cif).arg_types) - 1) :
            i >= Unwrap(call_st.signature).fixed_count =>
                Unwrap(call_st.cif).arg_types[i + 1] \notin UnpromotedTypes

(***************************************************************************)
(* storeScalar: what a store leaves in the target allocation               *)
(***************************************************************************)
\* a step of storeScalar on the allocation
StoreStep == Unwrap(sc).pc = "allocated" /\ Unwrap(sc').pc = "stored"

\* the bytes of the allocation behind the first n
BytesBehind(mem, n) == SubSeq(mem, n + 1, Len(mem))

\* what a store that returned `res` may have done to the allocation
StoreEffect(before, after, res, code, value) ==
    IF IsOk(res)
    THEN /\ IsOk(ScalarType(code))
         /\ ScalarType(code).v # "Void"
         /\ Len(store_bytes(ScalarType(code).v, value).v) = size_of(ScalarType(code).v)
         /\ SubSeq(after, 1, size_of(ScalarType(code).v))
                = store_bytes(ScalarType(code).v, value).v
         /\ BytesBehind(after, size_of(ScalarType(code).v))
                = BytesBehind(before, size_of(ScalarType(code).v))
    ELSE after = before

\* C28: storeScalar writes to the target only after the value's coercion has
\* succeeded: when it fails the bytes at the target are unchanged, and when it
\* succeeds it writes exactly size_of(code) bytes at the target and no other
\* byte.
C28_WritesAfterCoercion ==
    [][StoreStep =>
          StoreEffect(Unwrap(sc).mem, Unwrap(sc').mem, Unwrap(Unwrap(sc').stored),
                      Unwrap(sc_in).code, Unwrap(sc_in).value)]_vars

\* storeScalar(p, "int16", 300) has written 2 bytes of an allocation of 0xAA
C28_Witness ==
    /\ Unwrap(sc).pc = "stored"
    /\ ScalarType(Unwrap(sc_in).code) = Ok("Int16")
    /\ Unwrap(sc_in).value = Integer(I64(300))
    /\ Unwrap(sc).stored = Some(Ok(<<>>))
    /\ Unwrap(sc).mem = <<44, 1, 170, 170, 170, 170, 170, 170>>

(***************************************************************************)
(* collect_arguments: the three vectors it returns                         *)
(***************************************************************************)
\* the arguments the script passed, in order: the first `count` slots of the table
PassedArguments(a) == [i \in 1..PassedCount(a) |-> raw_get_index(a, i)]

\* the C strings of the string-valued arguments, in order
StringCopies(a) ==
    LET strings == SelectSeq(PassedArguments(a), LAMBDA v : v.kind = "string")
    IN  [k \in 1..Len(strings) |-> as_bytes(strings[k].text) \o <<0>>]

\* collect_arguments has returned its vectors
Collected == call_st.collected # None /\ IsOk(Unwrap(call_st.collected))

\* C29: whenever collect_arguments succeeds, the marshalled-value vector and the
\* FFI-type vector both have length exactly count; for a variadic signature the
\* fixed count passed to Cif::new_variadic never exceeds the number of FFI types
\* supplied; the anchor list holds exactly one entry per string-valued argument.
C29_VectorLengths ==
    Collected =>
        /\ Len(Unwrap(call_st.collected).v.values) = PassedCount(Unwrap(call_in).args_table)
        /\ Len(Unwrap(call_st.collected).v.arg_types) = PassedCount(Unwrap(call_in).args_table)
        /\ Unwrap(call_st.collected).v.string_refs = StringCopies(Unwrap(call_in).args_table)
        /\ call_st.cif # None
        /\ Unwrap(call_st.cif).arg_types = Unwrap(call_st.collected).v.arg_types
        /\ Unwrap(call_st.signature).variadic =>
              /\ Unwrap(call_st.cif).fixed_count = Some(Unwrap(call_st.signature).fixed_count)
              /\ Unwrap(Unwrap(call_st.cif).fixed_count) <= Len(Unwrap(call_st.cif).arg_types)

\* call(f, {args = {"pointer", "int8"}, variadic = true, fixedCount = 1},
\* {"%d", 5, "%d"}): three values, three types, two anchors
C29_Witness ==
    /\ Collected
    /\ Unwrap(call_st.signature).variadic
    /\ Unwrap(call_st.signature).fixed_count = 1
    /\ Unwrap(call_in).args_table = [n |-> None, items |-> <<String("%d"), Integer(I64(5)), String("%d")>>]
    /\ Len(Unwrap(call_st.cif).arg_types) = 3
    /\ Len(call_st.anchors) = 2

(***************************************************************************)
(* SpecFrames: the locals of one execution of call against the steps of    *)
(* another                                                                 *)
(***************************************************************************)
\* frame g takes a step
FrameSteps(g) == Unwrap(fr').frames[g] # Unwrap(fr).frames[g]

\* the step leaves alone what frame f holds: its marshalled values, FFI types
\* and anchor list, and the buffers its anchors own
LeavesAlone(f) ==
    /\ Unwrap(fr').frames[f] = Unwrap(fr).frames[f]
    /\ \A a \in HeapAddrs : FrameOwns(f, a) => Unwrap(fr').heap[a] = Unwrap(fr).heap[a]

\* no buffer is owned by two executions of call
AnchorsDisjoint == \A a \in HeapAddrs : ~(FrameOwns(1, a) /\ FrameOwns(2, a))

\* the outer call is in its native function with every anchor it made valid
OuterValid ==
    Unwrap(fr).frames[1].pc = "in_native" =>
        \A k \in 1..Len(Unwrap(fr).frames[1].string_refs) :
            Unwrap(fr).heap[Unwrap(fr).frames[1].string_refs[k]].live

\* C30: argument buffers and anchor lists are private to one execution of
\* call: when calls nest or a callback's call runs on another thread while a
\* call is in flight, the steps of one call (marshalling, early return, return)
\* neither release nor modify the marshalled values or anchor strings of the
\* other, and the outer call's stay valid until its native call returns.
C30_BuffersPrivate ==
    /\ [](AnchorsDisjoint /\ OuterValid)
    /\ [][\A f \in Frames, g \in Frames : (f # g /\ FrameSteps(g)) => LeavesAlone(f)]_vars

\* on another thread the inner call marshalled two strings and returned, and
\* the outer call, still in its native function, holds its two copies
C30_Witness ==
    /\ Unwrap(fr_in).mode = "thread"
    /\ Unwrap(fr).frames[2].pc = "returned"
    /\ IsOk(Unwrap(Unwrap(fr).frames[2].result))
    /\ Unwrap(fr).frames[1].pc = "in_native"
    /\ Len(Unwrap(fr).frames[1].string_refs) = 2
    /\ AnchorsIntact(1)
    /\ Unwrap(fr).frames[1].reads = Some(<<Some(<<37, 100, 0>>), Some(<<37, 100, 0>>)>>)

====
